---- MODULE Spec2Model ----
(***************************************************************************)
(* Attendance LINE bot (server.js): check-in handlers, recordAttendance,   *)
(* the absence sweep (checkAbsences), the reminder scheduler               *)
(* (autoClassReminder) and the session/course endpoints they depend on.    *)
(*                                                                         *)
(* Sheets are sequences of rows (row order matters: Array.find returns the *)
(* first match).  The clock is [day, min, ms]: ms = 0 is the instant       *)
(* hh:mm:00.000, ms = 1 any later instant of the same minute.  Positions   *)
(* are metres along one meridian, so the great-circle distance of two      *)
(* points of equal longitude is the difference of their offsets.           *)
(***************************************************************************)
EXTENDS Integers, Sequences, FiniteSets, Bags, TLC

\* ---------------------------------------------------------------- bounds
MaxSessions == 2
MaxMin == 6
\* records of each status a person has before the calls that are checked
MaxHistory == 2

\* ------------------------------------------------------ program constants
DefaultRadius == 100
DefaultLate == 10
DefaultRemind == 30
ReminderTolerance == 5
MaxRetry == 3

\* ------------------------------------------------------------ input sets
Tokens == {"u1", "u2", "u3"}
Senders == {"u1"}
CourseIds == {"c1"}
CodeCourses == CourseIds \cup {"cX"}
SessionIds == 1..MaxSessions
Classroom == [lat |-> 10, lon |-> 121]
Locations == {10, 12, 13}
RadiusInputs == {-1, 0, 2}
LateInputs == {1, 2}
CourseTime == [start |-> 2, end |-> 5]
FarAway == 1000 * 1000

VARIABLES students, courses, sessions, records, stats, reminders, settings,
          userStates, pushes, reply, now, proc

vars == <<students, courses, sessions, records, stats, reminders, settings,
          userStates, pushes, reply, now, proc>>

\* ------------------------------------------------------------- utilities
Abs(x) == IF x < 0 THEN -x ELSE x

\* Array.prototype.find over row indices: the least index of S, 0 if S is empty
FirstOf(S) == IF S = {} THEN 0 ELSE CHOOSE i \in S : \A j \in S : i <= j

\* Math.round(num / den * 100) for den > 0
RoundPercent(num, den) == (200 * num + den) \div (2 * den)

\* calculateDistance: haversine, restricted to the grid of the model
calculateDistance(lat1, lon1, lat2, lon2) ==
    IF lon1 = lon2 THEN Abs(lat2 - lat1) ELSE FarAway

\* getTodayString
getTodayString == now.day

NoState == [step |-> "none"]

\* handlers in flight (used where handlers interleave at their awaits)
Events == {"e1", "e2"}
Sweeper == "sw"
IdleProcs == [p \in Events \cup {Sweeper} |-> [pc |-> "idle"]]
NoReply == [to |-> "", kind |-> "none", info |-> <<>>]
Reply(u, kind, info) == [to |-> u, kind |-> kind, info |-> info]

\* ------------------------------------------------------- sheet look-ups
\* getStudent: first row whose LINE_ID is the sender's token
getStudent(lineUserId) ==
    LET i == FirstOf({k \in 1..Len(students) : students[k].lineId = lineUserId})
    IN IF i = 0 THEN <<>> ELSE <<students[i]>>

\* students.find(s => s.get('學號') === studentId)
StudentById(studentId) ==
    LET i == FirstOf({k \in 1..Len(students) : students[k].id = studentId})
    IN IF i = 0 THEN <<>> ELSE <<students[i]>>

\* getCourse: first row with the course id
getCourse(courseId) ==
    LET i == FirstOf({k \in 1..Len(courses) : courses[k].id = courseId})
    IN IF i = 0 THEN <<>> ELSE <<courses[i]>>

\* getTodaySession: first row of the course dated today whose state is not closed
getTodaySession(courseId) ==
    LET i == FirstOf({k \in 1..Len(sessions) :
                        /\ sessions[k].course = courseId
                        /\ sessions[k].date = getTodayString
                        /\ sessions[k].status # "closed"})
    IN IF i = 0 THEN <<>> ELSE <<sessions[i]>>

\* the handlers' fallback: the row with the code's session id, not closed
SessionById(sessionId) ==
    LET i == FirstOf({k \in 1..Len(sessions) :
                        sessions[k].id = sessionId /\ sessions[k].status # "closed"})
    IN IF i = 0 THEN <<>> ELSE <<sessions[i]>>

\* let session = await getTodaySession(courseId); if (!session) session = rows.find(...)
ResolveSession(courseId, sessionId) ==
    IF getTodaySession(courseId) # <<>> THEN getTodaySession(courseId)
    ELSE SessionById(sessionId)

\* rows.find(row => row.get('活動ID') === sessionId && row.get('學號') === studentId)
ExistingRecord(recs, sessionId, studentId) ==
    LET i == FirstOf({k \in 1..Len(recs) :
                        recs[k].session = sessionId /\ recs[k].student = studentId})
    IN IF i = 0 THEN <<>> ELSE <<recs[i]>>

checkExistingAttendance(sessionId, studentId) ==
    ExistingRecord(records, sessionId, studentId)

\* parseInt(course.get('遲到標準')) || 10
LateStandard(course) == IF course.late = 0 THEN DefaultLate ELSE course.late

\* handleGPSCheckin's parse of 簽到範圍 (a blank cell is <<>>)
ParseRadius(course) ==
    IF course.radius = <<>> THEN DefaultRadius ELSE course.radius[1]

\* Math.floor((now - startDate) / 60000), startDate = today at startTime:00.000;
\* computed in half minutes so that the floor acts
DiffMinutes(startTime) == ((2 * now.min + now.ms) - 2 * startTime) \div 2

\* variant of the late decision with an inclusive threshold
CheckinStatusInclusive(diffMinutes, lateMinutes) ==
    IF diffMinutes >= lateMinutes
    THEN [status |-> "late", late |-> diffMinutes]
    ELSE [status |-> "on-time", late |-> 0]

\* status and lateMinutes as the check-in handlers derive them
CheckinStatus(diffMinutes, lateMinutes) ==
    IF diffMinutes > lateMinutes
    THEN [status |-> "late", late |-> diffMinutes]
    ELSE [status |-> "on-time", late |-> 0]

\* -------------------------------------------------------- recordAttendance
\* variant of updateStatistics that does not count a late arrival as attended
updateStatisticsLateApart(st, studentId, status) ==
    LET row == st[studentId]
        attended == row.attended + (IF status = "on-time" THEN 1 ELSE 0)
        late == row.late + (IF status = "late" THEN 1 ELSE 0)
        absent == row.absent + (IF status = "absent" THEN 1 ELSE 0)
        total == attended + absent
        rate == IF total > 0 THEN RoundPercent(attended, total) ELSE 0
    IN [st EXCEPT ![studentId] =
            [attended |-> attended, late |-> late, absent |-> absent, rate |-> rate]]

\* updateStatistics: read-modify-write of the person's counters and rate
updateStatistics(st, studentId, status) ==
    LET row == st[studentId]
        attended == row.attended + (IF status \in {"on-time", "late"} THEN 1 ELSE 0)
        late == row.late + (IF status = "late" THEN 1 ELSE 0)
        absent == row.absent + (IF status = "absent" THEN 1 ELSE 0)
        total == attended + absent
        rate == IF total > 0 THEN RoundPercent(attended, total) ELSE 0
    IN [st EXCEPT ![studentId] =
            [attended |-> attended, late |-> late, absent |-> absent, rate |-> rate]]

\* the status notification of recordAttendance: pushed when the person is linked
\* and the session and its course are found
NotifyStatus(p, sessionId, studentId, status) ==
    LET stu == StudentById(studentId)
        si == FirstOf({k \in 1..Len(sessions) : sessions[k].id = sessionId})
    IN IF /\ stu # <<>>
          /\ stu[1].lineId # ""
          /\ si # 0
          /\ getCourse(sessions[si].course) # <<>>
          /\ status \in {"on-time", "late", "absent"}
       THEN p (+) SetToBag({[to |-> stu[1].lineId, kind |-> status, session |-> sessionId]})
       ELSE p

\* the row recordAttendance appends
NewRecord(sessionId, studentId, status, lateMinutes, gps) ==
    [session |-> sessionId, student |-> studentId, status |-> status,
     late |-> lateMinutes, gps |-> gps]

\* variant of recordAttendance without the duplicate guard
recordAttendanceUnguarded(db, sessionId, studentId, status, lateMinutes, gps) ==
    [db |-> [records |-> Append(db.records,
                                NewRecord(sessionId, studentId, status, lateMinutes, gps)),
             stats |-> updateStatistics(db.stats, studentId, status),
             pushes |-> NotifyStatus(db.pushes, sessionId, studentId, status)],
     success |-> TRUE, status |-> status]

\* recordAttendance on db = [records, stats, pushes]: the new db and the result
recordAttendance(db, sessionId, studentId, status, lateMinutes, gps) ==
    LET existing == ExistingRecord(db.records, sessionId, studentId)
    IN IF existing # <<>>
       THEN [db |-> db, success |-> FALSE, status |-> existing[1].status]
       ELSE [db |-> [records |-> Append(db.records,
                                    NewRecord(sessionId, studentId, status, lateMinutes, gps)),
                     stats |-> updateStatistics(db.stats, studentId, status),
                     pushes |-> NotifyStatus(db.pushes, sessionId, studentId, status)],
             success |-> TRUE, status |-> status]

Db == [records |-> records, stats |-> stats, pushes |-> pushes]

SetDb(db) ==
    /\ records' = db.records
    /\ stats' = db.stats
    /\ pushes' = db.pushes

\* ------------------------------------------------------- check-in handlers
\* variant of the handlers' recording that stores the classroom as the location
RecordNowLocated(u, student, course, session) ==
    LET diffMinutes == DiffMinutes(session.start)
        cs == CheckinStatus(diffMinutes, LateStandard(course))
        result == recordAttendance(Db, session.id, student.id, cs.status, cs.late,
                                   <<course.lat, course.lon>>)
    IN [db |-> result.db,
        ustate |-> userStates[u],
        reply |-> IF result.success THEN Reply(u, "checkedIn", <<cs.status>>)
                  ELSE Reply(u, "checkinFailed", <<>>)]

\* the late decision and the recordAttendance call shared by the handlers that
\* record without a location (gps '' '')
RecordNow(u, student, course, session) ==
    LET diffMinutes == DiffMinutes(session.start)
        cs == CheckinStatus(diffMinutes, LateStandard(course))
        result == recordAttendance(Db, session.id, student.id, cs.status, cs.late, <<>>)
    IN [db |-> result.db,
        ustate |-> userStates[u],
        reply |-> IF result.success THEN Reply(u, "checkedIn", <<cs.status>>)
                  ELSE Reply(u, "checkinFailed", <<>>)]

Unchanged(u, kind, info) ==
    [db |-> Db, ustate |-> userStates[u], reply |-> Reply(u, kind, info)]

\* variant of handleDirectCheckin that applies the geofence rules of the gps code
handleDirectCheckinGeofenced(u, courseId, sessionId) ==
    LET student == getStudent(u)
        course == getCourse(courseId)
        session == ResolveSession(courseId, sessionId)
    IN IF student = <<>> THEN Unchanged(u, "notRegistered", <<>>)
       ELSE IF course = <<>> THEN Unchanged(u, "noCourse", <<>>)
       ELSE IF session = <<>> THEN Unchanged(u, "noSession", <<>>)
       ELSE IF checkExistingAttendance(session[1].id, student[1].id) # <<>>
            THEN Unchanged(u, "alreadyCheckedIn", <<>>)
       ELSE IF course[1].radius = <<-1>> THEN Unchanged(u, "venueOnly", <<>>)
       ELSE RecordNow(u, student[1], course[1], session[1])

\* handleDirectCheckin on the text '直接簽到:<courseId>|<sessionId>'
handleDirectCheckin(u, courseId, sessionId) ==
    LET student == getStudent(u)
        course == getCourse(courseId)
        session == ResolveSession(courseId, sessionId)
    IN IF student = <<>> THEN Unchanged(u, "notRegistered", <<>>)
       ELSE IF course = <<>> THEN Unchanged(u, "noCourse", <<>>)
       ELSE IF session = <<>> THEN Unchanged(u, "noSession", <<>>)
       ELSE IF checkExistingAttendance(session[1].id, student[1].id) # <<>>
            THEN Unchanged(u, "alreadyCheckedIn", <<>>)
       ELSE RecordNow(u, student[1], course[1], session[1])

\* handleCheckinRequest on the legacy text '簽到:<courseId>|<sessionId>'
handleCheckinRequest(u, courseId, sessionId) ==
    LET student == getStudent(u)
        course == getCourse(courseId)
        session == ResolveSession(courseId, sessionId)
    IN IF student = <<>> THEN Unchanged(u, "notRegistered", <<>>)
       ELSE IF course = <<>> THEN Unchanged(u, "noCourse", <<>>)
       ELSE IF session = <<>> THEN Unchanged(u, "noSession", <<>>)
       ELSE IF checkExistingAttendance(session[1].id, student[1].id) # <<>>
            THEN Unchanged(u, "alreadyCheckedIn", <<>>)
       ELSE RecordNow(u, student[1], course[1], session[1])

\* the conversation state handleGPSCheckin stores for a geofenced course
WaitingLocation(course, session) ==
    [step |-> "waitingLocation",
     courseId |-> course.id,
     sessionId |-> session.id,
     classroomLat |-> course.lat,
     classroomLon |-> course.lon,
     checkRadius |-> ParseRadius(course),
     lateMinutes |-> LateStandard(course),
     startTime |-> session.start,
     retryCount |-> 0]

\* variant of handleGPSCheckin without the venue-only branch for radius -1
handleGPSCheckinNoVenueOnly(u, courseId, sessionId) ==
    LET student == getStudent(u)
        course == getCourse(courseId)
        session == ResolveSession(courseId, sessionId)
    IN IF student = <<>> THEN Unchanged(u, "notRegistered", <<>>)
       ELSE IF course = <<>> THEN Unchanged(u, "noCourse", <<>>)
       ELSE IF session = <<>> THEN Unchanged(u, "noSession", <<>>)
       ELSE IF checkExistingAttendance(session[1].id, student[1].id) # <<>>
            THEN Unchanged(u, "alreadyCheckedIn", <<>>)
       ELSE IF course[1].lat # 0 /\ course[1].lon # 0 /\ ParseRadius(course[1]) > 0
            THEN [db |-> Db,
                  ustate |-> WaitingLocation(course[1], session[1]),
                  reply |-> Reply(u, "sendLocation", <<>>)]
       ELSE RecordNow(u, student[1], course[1], session[1])

\* variant of handleGPSCheckin that keeps a pending context instead of replacing it
handleGPSCheckinKeepsPending(u, courseId, sessionId) ==
    LET student == getStudent(u)
        course == getCourse(courseId)
        session == ResolveSession(courseId, sessionId)
    IN IF student = <<>> THEN Unchanged(u, "notRegistered", <<>>)
       ELSE IF course = <<>> THEN Unchanged(u, "noCourse", <<>>)
       ELSE IF session = <<>> THEN Unchanged(u, "noSession", <<>>)
       ELSE IF checkExistingAttendance(session[1].id, student[1].id) # <<>>
            THEN Unchanged(u, "alreadyCheckedIn", <<>>)
       ELSE IF ParseRadius(course[1]) = -1 THEN Unchanged(u, "venueOnly", <<>>)
       ELSE IF course[1].lat # 0 /\ course[1].lon # 0 /\ ParseRadius(course[1]) > 0
            THEN [db |-> Db,
                  ustate |-> IF userStates[u].step = "waitingLocation" THEN userStates[u]
                             ELSE WaitingLocation(course[1], session[1]),
                  reply |-> Reply(u, "sendLocation", <<>>)]
       ELSE RecordNow(u, student[1], course[1], session[1])

\* handleGPSCheckin on the text 'GPS簽到:<courseId>|<sessionId>'
handleGPSCheckin(u, courseId, sessionId) ==
    LET student == getStudent(u)
        course == getCourse(courseId)
        session == ResolveSession(courseId, sessionId)
    IN IF student = <<>> THEN Unchanged(u, "notRegistered", <<>>)
       ELSE IF course = <<>> THEN Unchanged(u, "noCourse", <<>>)
       ELSE IF session = <<>> THEN Unchanged(u, "noSession", <<>>)
       ELSE IF checkExistingAttendance(session[1].id, student[1].id) # <<>>
            THEN Unchanged(u, "alreadyCheckedIn", <<>>)
       ELSE IF ParseRadius(course[1]) = -1 THEN Unchanged(u, "venueOnly", <<>>)
       ELSE IF course[1].lat # 0 /\ course[1].lon # 0 /\ ParseRadius(course[1]) > 0
            THEN [db |-> Db,
                  ustate |-> WaitingLocation(course[1], session[1]),
                  reply |-> Reply(u, "sendLocation", <<>>)]
       ELSE RecordNow(u, student[1], course[1], session[1])

\* handleLocation's fresh read of the geofence: coordinates and radius of the course
\* row, each falling back to the value captured in the conversation state
Geofence(course, state) ==
    [lat |-> IF course.lat # 0 THEN course.lat ELSE state.classroomLat,
     lon |-> IF course.lon # 0 THEN course.lon ELSE state.classroomLon,
     radius |-> IF course.radius # <<>> THEN course.radius[1] ELSE state.checkRadius]

\* variant of the out-of-range branch that never abandons the flow
OutOfRangeForever(u, state, distance, allowedRadius) ==
    [db |-> Db,
     ustate |-> [state EXCEPT !.retryCount = @ + 1],
     reply |-> Reply(u, "retryLocation", <<distance, allowedRadius>>)]

\* the out-of-range branch: count the retry, abandon at the third; both replies
\* quote the distance and the allowed radius
OutOfRange(u, state, distance, allowedRadius) ==
    LET retryCount == state.retryCount + 1
    IN IF retryCount >= MaxRetry
       THEN [db |-> Db, ustate |-> NoState,
             reply |-> Reply(u, "abandoned", <<distance, allowedRadius>>)]
       ELSE [db |-> Db,
             ustate |-> [state EXCEPT !.retryCount = retryCount],
             reply |-> Reply(u, "retryLocation", <<distance, allowedRadius>>)]

\* variant of the admitted branch that deletes the state only after a success
AdmittedKeepsPending(u, student, state, latitude, longitude, distance) ==
    LET diffMinutes == DiffMinutes(state.startTime)
        cs == CheckinStatus(diffMinutes, state.lateMinutes)
        result == recordAttendance(Db, state.sessionId, student.id, cs.status, cs.late,
                                   <<latitude, longitude>>)
    IN [db |-> result.db,
        ustate |-> IF result.success THEN NoState ELSE state,
        reply |-> IF result.success THEN Reply(u, "checkedIn", <<cs.status, distance>>)
                  ELSE Reply(u, "duplicate", <<result.status>>)]

\* the admitted branch: late decision from the captured start time and threshold
Admitted(u, student, state, latitude, longitude, distance) ==
    LET diffMinutes == DiffMinutes(state.startTime)
        cs == CheckinStatus(diffMinutes, state.lateMinutes)
        result == recordAttendance(Db, state.sessionId, student.id, cs.status, cs.late,
                                   <<latitude, longitude>>)
    IN [db |-> result.db,
        ustate |-> NoState,
        reply |-> IF result.success THEN Reply(u, "checkedIn", <<cs.status, distance>>)
                  ELSE Reply(u, "duplicate", <<result.status>>)]

\* variant of handleLocation that rejects the boundary distance = radius
handleLocationStrict(u, latitude, longitude) ==
    LET state == userStates[u]
        student == getStudent(u)
    IN IF state.step # "waitingLocation" THEN Unchanged(u, "scanFirst", <<>>)
       ELSE IF student = <<>>
            THEN [db |-> Db, ustate |-> NoState, reply |-> Reply(u, "notRegistered", <<>>)]
       ELSE IF getCourse(state.courseId) = <<>>
            THEN [db |-> Db, ustate |-> NoState, reply |-> Reply(u, "noCourse", <<>>)]
       ELSE LET fence == Geofence(getCourse(state.courseId)[1], state)
                distance == calculateDistance(latitude, longitude, fence.lat, fence.lon)
            IN IF distance >= fence.radius THEN OutOfRange(u, state, distance, fence.radius)
               ELSE Admitted(u, student[1], state, latitude, longitude, distance)

\* variant of handleLocation that deletes whatever conversation state it finds
handleLocationResets(u, latitude, longitude) ==
    LET state == userStates[u]
        student == getStudent(u)
    IN IF state.step # "waitingLocation"
       THEN [db |-> Db, ustate |-> NoState, reply |-> Reply(u, "scanFirst", <<>>)]
       ELSE IF student = <<>>
            THEN [db |-> Db, ustate |-> NoState, reply |-> Reply(u, "notRegistered", <<>>)]
       ELSE IF getCourse(state.courseId) = <<>>
            THEN [db |-> Db, ustate |-> NoState, reply |-> Reply(u, "noCourse", <<>>)]
       ELSE LET fence == Geofence(getCourse(state.courseId)[1], state)
                distance == calculateDistance(latitude, longitude, fence.lat, fence.lon)
            IN IF distance > fence.radius THEN OutOfRange(u, state, distance, fence.radius)
               ELSE Admitted(u, student[1], state, latitude, longitude, distance)

\* handleLocation on a location message
handleLocation(u, latitude, longitude) ==
    LET state == userStates[u]
        student == getStudent(u)
    IN IF state.step # "waitingLocation" THEN Unchanged(u, "scanFirst", <<>>)
       ELSE IF student = <<>>
            THEN [db |-> Db, ustate |-> NoState, reply |-> Reply(u, "notRegistered", <<>>)]
       ELSE IF getCourse(state.courseId) = <<>>
            THEN [db |-> Db, ustate |-> NoState, reply |-> Reply(u, "noCourse", <<>>)]
       ELSE LET fence == Geofence(getCourse(state.courseId)[1], state)
                distance == calculateDistance(latitude, longitude, fence.lat, fence.lon)
            IN IF distance > fence.radius THEN OutOfRange(u, state, distance, fence.radius)
               ELSE Admitted(u, student[1], state, latitude, longitude, distance)

\* a handler's outcome written to the state
Apply(u, o) ==
    /\ SetDb(o.db)
    /\ userStates' = [userStates EXCEPT ![u] = o.ustate]
    /\ reply' = o.reply
    /\ UNCHANGED <<students, courses, sessions, reminders, settings, now, proc>>

OnDirectCheckin(u, c, sid) == Apply(u, handleDirectCheckin(u, c, sid))

OnGPSCheckin(u, c, sid) == Apply(u, handleGPSCheckin(u, c, sid))

OnCheckinRequest(u, c, sid) == Apply(u, handleCheckinRequest(u, c, sid))

OnLocation(u, lat) == Apply(u, handleLocation(u, lat, Classroom.lon))

\* ------------------------------------------------------------ checkAbsences
\* now > endTime, endTime = today at 結束時間:00.000 (a blank cell is 0 and is skipped)
EndPassed(session) ==
    session.end # 0 /\ (2 * now.min + now.ms) > 2 * session.end

\* (s.get('班級') || '').split(/[,、]/).map(c => c.trim()).includes(className)
Enrolled(student, className) ==
    \E i \in 1..Len(student.classes) : student.classes[i] = className

\* students.filter(...) of checkAbsences
ClassStudents(className) == SelectSeq(students, LAMBDA s : Enrolled(s, className))

\* the absence notice checkAbsences pushes itself after a successful recordAttendance
AbsenceNotice(db, session, student, result) ==
    IF result.success /\ student.lineId # ""
    THEN [db EXCEPT !.pushes = @ (+) SetToBag({[to |-> student.lineId,
                                                kind |-> "absenceNotice",
                                                session |-> session.id]})]
    ELSE db

\* the per-student loop: hasRecord is decided on the rows read before the loop
RECURSIVE MarkAbsent(_, _, _, _)
MarkAbsent(db, session, classStudents, snapshot) ==
    IF classStudents = <<>> THEN db
    ELSE LET student == Head(classStudents)
             hasRecord == ExistingRecord(snapshot, session.id, student.id) # <<>>
             result == recordAttendance(db, session.id, student.id, "absent", 0, <<>>)
         IN MarkAbsent(IF hasRecord THEN db
                       ELSE AbsenceNotice(result.db, session, student, result),
                       session, Tail(classStudents), snapshot)

\* one due session: absences for the enrolled persons of its course's class
SweepSession(db, session) ==
    LET course == getCourse(session.course)
    IN IF course = <<>> THEN db
       ELSE MarkAbsent(db, session, ClassStudents(course[1].cls), db.records)

\* variant of the save that loses the new state
SaveStatusLost(sess, i, status) == sess

\* session.set('狀態', ...); await session.save()
SaveStatus(sess, i, status) == [sess EXCEPT ![i].status = status]

\* the per-session loop over the rows read at the start of the sweep (snapshot):
\* an open session whose end has passed is marked closing, processed, marked closed
RECURSIVE SweepFrom(_, _, _, _)
SweepFrom(i, snapshot, sess, db) ==
    IF i > Len(snapshot) THEN [sessions |-> sess, db |-> db]
    ELSE IF snapshot[i].status # "open" \/ ~EndPassed(snapshot[i])
         THEN SweepFrom(i + 1, snapshot, sess, db)
    ELSE SweepFrom(i + 1, snapshot,
                   SaveStatus(SaveStatus(sess, i, "closing"), i, "closed"),
                   SweepSession(db, snapshot[i]))

\* one whole run of checkAbsences on the sheets sess and db
checkAbsences(sess, db) == SweepFrom(1, sess, sess, db)

CheckAbsences ==
    /\ sessions' = checkAbsences(sessions, Db).sessions
    /\ SetDb(checkAbsences(sessions, Db).db)
    /\ UNCHANGED <<students, courses, reminders, settings, userStates, reply, now, proc>>

\* -------------------------------------------------------- autoClassReminder
\* parseInt(設定值) || 30
RemindMinutes == IF settings.remindMinutes = 0 THEN DefaultRemind ELSE settings.remindMinutes

\* currentTotalMin >= reminderTime && currentTotalMin <= reminderTime + 5
InReminderWindow(course) ==
    LET reminderTime == course.start - RemindMinutes
    IN now.min >= reminderTime /\ now.min <= reminderTime + ReminderTolerance

\* variant of the ledger look-up that never finds an entry
AlreadySentNever(ledger, course) == FALSE

\* reminders.some(...) on the ledger rows read before the loop
AlreadySent(ledger, course) == [course |-> course.id, date |-> getTodayString] \in ledger

\* the session row autoClassReminder and POST /api/sessions append
NewSession(sess, courseId, date, start, end) ==
    Append(sess, [id |-> Len(sess) + 1, course |-> courseId, date |-> date,
                  start |-> start, end |-> end, status |-> "open"])

\* the check-in prompts: one per enrolled person with a LINE_ID
Prompts(p, course, sessionId) ==
    p (+) SetToBag({[to |-> students[k].lineId, kind |-> "prompt", session |-> sessionId] :
                      k \in {j \in 1..Len(students) :
                               Enrolled(students[j], course.cls) /\ students[j].lineId # ""}})

\* the loop over today's active courses; snapshot is the ledger read before the loop
RECURSIVE RemindFrom(_, _, _, _, _)
RemindFrom(i, snapshot, sess, p, ledger) ==
    IF i > Len(courses) THEN [sessions |-> sess, pushes |-> p, reminders |-> ledger]
    ELSE IF \/ courses[i].weekday # now.day
            \/ ~courses[i].active
            \/ courses[i].start = 0
            \/ ~InReminderWindow(courses[i])
            \/ AlreadySent(snapshot, courses[i])
         THEN RemindFrom(i + 1, snapshot, sess, p, ledger)
    ELSE RemindFrom(i + 1, snapshot,
                    NewSession(sess, courses[i].id, getTodayString,
                               courses[i].start, courses[i].end),
                    Prompts(p, courses[i], Len(sess) + 1),
                    ledger \cup {[course |-> courses[i].id, date |-> getTodayString]})

\* one whole run of autoClassReminder on the sheets sess, p (pushes) and ledger
autoClassReminder(sess, p, ledger) ==
    IF ~settings.autoRemind
    THEN [sessions |-> sess, pushes |-> p, reminders |-> ledger]
    ELSE RemindFrom(1, ledger, sess, p, ledger)

AutoClassReminder ==
    /\ Len(autoClassReminder(sessions, pushes, reminders).sessions) <= MaxSessions
    /\ sessions' = autoClassReminder(sessions, pushes, reminders).sessions
    /\ pushes' = autoClassReminder(sessions, pushes, reminders).pushes
    /\ reminders' = autoClassReminder(sessions, pushes, reminders).reminders
    /\ UNCHANGED <<students, courses, records, stats, settings, userStates, reply, now, proc>>

\* ------------------------------------------------------- admin endpoints
\* POST /api/sessions: the manual trigger
PostSession(courseId, date, start, end) ==
    /\ Len(sessions) < MaxSessions
    /\ sessions' = NewSession(sessions, courseId, date, start, end)
    /\ UNCHANGED <<students, courses, records, stats, reminders, settings,
                   userStates, pushes, reply, now, proc>>

\* PUT /api/courses/:id with the fields of the body that are given
putCourse(courseId, body) ==
    [k \in 1..Len(courses) |->
        IF k # FirstOf({j \in 1..Len(courses) : courses[j].id = courseId}) THEN courses[k]
        ELSE [courses[k] EXCEPT
                !.lat = IF body.lat # <<>> THEN body.lat[1] ELSE @,
                !.lon = IF body.lon # <<>> THEN body.lon[1] ELSE @,
                !.radius = IF body.radius # <<>> THEN body.radius ELSE @]]

CourseBodies ==
    {[lat |-> <<>>, lon |-> <<>>, radius |-> <<r>>] : r \in RadiusInputs}
    \cup {[lat |-> <<0>>, lon |-> <<0>>, radius |-> <<>>],
          [lat |-> <<Classroom.lat>>, lon |-> <<Classroom.lon>>, radius |-> <<>>]}

PutCourse(courseId, body) ==
    /\ getCourse(courseId) # <<>>
    /\ courses' = putCourse(courseId, body)
    /\ courses' # courses
    /\ UNCHANGED <<students, sessions, records, stats, reminders, settings,
                   userStates, pushes, reply, now, proc>>

\* ------------------------------------------------------------------ clock
Tick ==
    /\ now.ms = 0 \/ now.min < MaxMin
    /\ now' = IF now.ms = 0 THEN [now EXCEPT !.ms = 1]
              ELSE [now EXCEPT !.min = @ + 1, !.ms = 0]
    /\ UNCHANGED <<students, courses, sessions, records, stats, reminders, settings,
                   userStates, pushes, reply, proc>>

\* ------------------------------------------------------------ specification
StudentIds == {"s1", "s2", "s3", "s4", "s5"}

InitStudents ==
    << [id |-> "s1", classes |-> <<"A", "B">>, lineId |-> "u1"],
       [id |-> "s2", classes |-> <<"A">>, lineId |-> "u2"],
       [id |-> "s3", classes |-> <<"A">>, lineId |-> ""],
       [id |-> "s4", classes |-> <<"B">>, lineId |-> ""] >>

InitCourse(late) ==
    [id |-> "c1", cls |-> "A", weekday |-> 1,
     start |-> CourseTime.start, end |-> CourseTime.end,
     lat |-> Classroom.lat, lon |-> Classroom.lon,
     radius |-> <<2>>, late |-> late, active |-> TRUE]

InitStats == [s \in StudentIds |-> [attended |-> 0, late |-> 0, absent |-> 0, rate |-> 0]]

\* the store after construction: people and one course configured, nothing recorded
Init ==
    /\ students = InitStudents
    /\ \E late \in LateInputs : courses = <<InitCourse(late)>>
    /\ sessions = <<>>
    /\ records = <<>>
    /\ stats = InitStats
    /\ reminders = {}
    /\ settings = [autoRemind |-> TRUE, remindMinutes |-> 1]
    /\ userStates = [u \in Tokens |-> NoState]
    /\ pushes = EmptyBag
    /\ reply = NoReply
    /\ now = [day |-> 1, min |-> 0, ms |-> 0]
    /\ proc = IdleProcs

\* the store right after autoClassReminder opened today's session of the course
InitCheckin ==
    /\ students = InitStudents
    /\ \E late \in LateInputs : courses = <<InitCourse(late)>>
    /\ now = [day |-> 1, min |-> CourseTime.start - 1, ms |-> 1]
    /\ sessions = NewSession(<<>>, "c1", now.day, CourseTime.start, CourseTime.end)
    /\ records = <<>>
    /\ stats = InitStats
    /\ reminders = {[course |-> "c1", date |-> now.day]}
    /\ settings = [autoRemind |-> TRUE, remindMinutes |-> 1]
    /\ userStates = [u \in Tokens |-> NoState]
    /\ pushes = Prompts(EmptyBag, courses[1], 1)
    /\ reply = NoReply
    /\ proc = IdleProcs

\* the learner's check-in flows against an open session, the course being edited
NextCheckin ==
    \/ \E u \in Senders, c \in CodeCourses, sid \in SessionIds : OnDirectCheckin(u, c, sid)
    \/ \E u \in Senders, c \in CodeCourses, sid \in SessionIds : OnGPSCheckin(u, c, sid)
    \/ \E u \in Senders, c \in CodeCourses, sid \in SessionIds : OnCheckinRequest(u, c, sid)
    \/ \E u \in Senders, lat \in Locations : OnLocation(u, lat)
    \/ \E c \in CourseIds, body \in CourseBodies : PutCourse(c, body)
    \/ CheckAbsences
    \/ Tick

SpecCheckin == InitCheckin /\ [][NextCheckin]_vars

\* the schedulers, the manual trigger and venue check-ins on the day of the course
NextSchedule ==
    \/ \E u \in Senders, c \in CourseIds, sid \in SessionIds : OnDirectCheckin(u, c, sid)
    \/ CheckAbsences
    \/ AutoClassReminder
    \/ \E c \in CourseIds : PostSession(c, getTodayString, CourseTime.start, CourseTime.end)
    \/ Tick

SpecSchedule == Init /\ [][NextSchedule]_vars

\* --------------------------------------- handlers interleaved at their awaits
\* app.post('/webhook') starts handleEvent for every event of a batch at once
\* (Promise.all) and cron starts checkAbsences beside them; each handler runs up to
\* its next store await, where another handler may run.  Reads of the sheets no
\* handler of this specification writes (students, courses) are merged into the
\* step that follows them.
AllProcs == Events \cup {Sweeper}

Done == [pc |-> "done"]

\* the webhook delivers a direct check-in code of user u to handler p
EvDeliver(p, u, courseId, sessionId) ==
    /\ proc[p].pc = "idle"
    /\ proc' = [proc EXCEPT ![p] = [pc |-> "lookup", u |-> u, courseId |-> courseId,
                                    sessionId |-> sessionId]]
    /\ UNCHANGED <<students, courses, sessions, records, stats, reminders, settings,
                   userStates, pushes, reply, now>>

\* handleDirectCheckin up to the session look-up (getStudent, getCourse, getTodaySession)
EvLookup(p) ==
    LET me == proc[p]
        student == getStudent(me.u)
        course == getCourse(me.courseId)
        session == ResolveSession(me.courseId, me.sessionId)
    IN /\ me.pc = "lookup"
       /\ IF student = <<>> \/ course = <<>> \/ session = <<>>
          THEN /\ proc' = [proc EXCEPT ![p] = Done]
               /\ reply' = Reply(me.u, IF student = <<>> THEN "notRegistered"
                                       ELSE IF course = <<>> THEN "noCourse"
                                       ELSE "noSession", <<>>)
          ELSE /\ proc' = [proc EXCEPT ![p] = [pc |-> "checkExisting", u |-> me.u,
                                               student |-> student[1],
                                               course |-> course[1],
                                               session |-> session[1]]]
               /\ UNCHANGED reply
       /\ UNCHANGED <<students, courses, sessions, records, stats, reminders, settings,
                      userStates, pushes, now>>

\* checkExistingAttendance, then the late decision and the call of recordAttendance
EvCheckExisting(p) ==
    LET me == proc[p]
        cs == CheckinStatus(DiffMinutes(me.session.start), LateStandard(me.course))
    IN /\ me.pc = "checkExisting"
       /\ IF checkExistingAttendance(me.session.id, me.student.id) # <<>>
          THEN /\ proc' = [proc EXCEPT ![p] = Done]
               /\ reply' = Reply(me.u, "alreadyCheckedIn", <<>>)
          ELSE /\ proc' = [proc EXCEPT ![p] =
                              [pc |-> "raRead", u |-> me.u,
                               call |-> NewRecord(me.session.id, me.student.id,
                                                  cs.status, cs.late, <<>>)]]
               /\ UNCHANGED reply
       /\ UNCHANGED <<students, courses, sessions, records, stats, reminders, settings,
                      userStates, pushes, now>>

\* recordAttendance: const rows = await sheet.getRows(); the duplicate guard
EvRaRead(p) ==
    LET me == proc[p]
    IN /\ p \in Events
       /\ me.pc = "raRead"
       /\ IF ExistingRecord(records, me.call.session, me.call.student) # <<>>
          THEN /\ proc' = [proc EXCEPT ![p] = Done]
               /\ reply' = Reply(me.u, "checkinFailed", <<>>)
          ELSE /\ proc' = [proc EXCEPT ![p].pc = "raAppend"]
               /\ UNCHANGED reply
       /\ UNCHANGED <<students, courses, sessions, records, stats, reminders, settings,
                      userStates, pushes, now>>

\* recordAttendance: await sheet.addRow(...)
RaAppend(p) ==
    /\ proc[p].pc = "raAppend"
    /\ records' = Append(records, proc[p].call)
    /\ proc' = [proc EXCEPT ![p].pc = "raStats"]
    /\ UNCHANGED <<students, courses, sessions, stats, reminders, settings,
                   userStates, pushes, reply, now>>

\* recordAttendance: await updateStatistics(studentId, status)
RaStats(p) ==
    /\ proc[p].pc = "raStats"
    /\ stats' = updateStatistics(stats, proc[p].call.student, proc[p].call.status)
    /\ proc' = [proc EXCEPT ![p].pc = "raNotify"]
    /\ UNCHANGED <<students, courses, sessions, records, reminders, settings,
                   userStates, pushes, reply, now>>

\* recordAttendance: the status notification, then the handler's reply
EvRaNotify(p) ==
    LET me == proc[p]
    IN /\ p \in Events
       /\ me.pc = "raNotify"
       /\ pushes' = NotifyStatus(pushes, me.call.session, me.call.student, me.call.status)
       /\ reply' = Reply(me.u, "checkedIn", <<me.call.status>>)
       /\ proc' = [proc EXCEPT ![p] = Done]
       /\ UNCHANGED <<students, courses, sessions, records, stats, reminders, settings,
                      userStates, now>>

\* checkAbsences: const sessions = await sessionSheet.getRows()
SwStart ==
    /\ proc[Sweeper].pc = "idle"
    /\ proc' = [proc EXCEPT ![Sweeper] = [pc |-> "markClosing", snapshot |-> sessions,
                                          i |-> 1]]
    /\ UNCHANGED <<students, courses, sessions, records, stats, reminders, settings,
                   userStates, pushes, reply, now>>

\* the next row of the snapshot, from i on, that is open with its end passed
NextDue(snapshot, i) ==
    FirstOf({k \in i..Len(snapshot) : snapshot[k].status = "open" /\ EndPassed(snapshot[k])})

\* the next enrolled person, from k on, without a record in the rows read before the loop
NextAbsentee(classStudents, snapRecords, sessionId, k) ==
    FirstOf({j \in k..Len(classStudents) :
               ExistingRecord(snapRecords, sessionId, classStudents[j].id) = <<>>})

\* session.set('狀態', '處理中'); await session.save()
SwMarkClosing ==
    LET me == proc[Sweeper]
        i == NextDue(me.snapshot, me.i)
    IN /\ me.pc = "markClosing"
       /\ IF i = 0
          THEN proc' = [proc EXCEPT ![Sweeper] = Done] /\ UNCHANGED sessions
          ELSE /\ sessions' = SaveStatus(sessions, i, "closing")
               /\ proc' = [proc EXCEPT ![Sweeper] = [pc |-> "readRows",
                                                     snapshot |-> me.snapshot, i |-> i]]
       /\ UNCHANGED <<students, courses, records, stats, reminders, settings,
                      userStates, pushes, reply, now>>

\* the sweep continues with the person at or after k, or closes the session
SwContinue(me, k) ==
    LET j == NextAbsentee(me.classStudents, me.snapRecords, me.snapshot[me.i].id, k)
    IN IF j = 0
       THEN [pc |-> "markClosed", snapshot |-> me.snapshot, i |-> me.i]
       ELSE [pc |-> "raRead", snapshot |-> me.snapshot, i |-> me.i,
             classStudents |-> me.classStudents, snapRecords |-> me.snapRecords, k |-> j,
             call |-> NewRecord(me.snapshot[me.i].id, me.classStudents[j].id,
                                "absent", 0, <<>>)]

\* the course, the enrolled persons and the records read before the per-person loop
SwReadRows ==
    LET me == proc[Sweeper]
        course == getCourse(me.snapshot[me.i].course)
    IN /\ me.pc = "readRows"
       /\ proc' = [proc EXCEPT ![Sweeper] =
                      IF course = <<>>
                      THEN [pc |-> "markClosed", snapshot |-> me.snapshot, i |-> me.i]
                      ELSE SwContinue([snapshot |-> me.snapshot, i |-> me.i,
                                       classStudents |-> ClassStudents(course[1].cls),
                                       snapRecords |-> records], 1)]
       /\ UNCHANGED <<students, courses, sessions, records, stats, reminders, settings,
                      userStates, pushes, reply, now>>

\* recordAttendance called by the sweep: the duplicate guard
SwRaRead ==
    LET me == proc[Sweeper]
    IN /\ me.pc = "raRead"
       /\ proc' = [proc EXCEPT ![Sweeper] =
                      IF ExistingRecord(records, me.call.session, me.call.student) # <<>>
                      THEN SwContinue(me, me.k + 1)
                      ELSE [me EXCEPT !.pc = "raAppend"]]
       /\ UNCHANGED <<students, courses, sessions, records, stats, reminders, settings,
                      userStates, pushes, reply, now>>

\* recordAttendance called by the sweep: its status notification; result.success
SwRaNotify ==
    LET me == proc[Sweeper]
    IN /\ me.pc = "raNotify"
       /\ pushes' = NotifyStatus(pushes, me.call.session, me.call.student, me.call.status)
       /\ proc' = [proc EXCEPT ![Sweeper] =
                      IF me.classStudents[me.k].lineId # "" THEN [me EXCEPT !.pc = "notice"]
                      ELSE SwContinue(me, me.k + 1)]
       /\ UNCHANGED <<students, courses, sessions, records, stats, reminders, settings,
                      userStates, reply, now>>

\* the absence notice checkAbsences pushes after a successful recordAttendance
SwNotice ==
    LET me == proc[Sweeper]
    IN /\ me.pc = "notice"
       /\ pushes' = AbsenceNotice(Db, me.snapshot[me.i], me.classStudents[me.k],
                                  [success |-> TRUE]).pushes
       /\ proc' = [proc EXCEPT ![Sweeper] = SwContinue(me, me.k + 1)]
       /\ UNCHANGED <<students, courses, sessions, records, stats, reminders, settings,
                      userStates, reply, now>>

\* session.set('狀態', '已結束'); await session.save(); then the next row
SwMarkClosed ==
    LET me == proc[Sweeper]
    IN /\ me.pc = "markClosed"
       /\ sessions' = SaveStatus(sessions, me.i, "closed")
       /\ proc' = [proc EXCEPT ![Sweeper] = [pc |-> "markClosing",
                                             snapshot |-> me.snapshot, i |-> me.i + 1]]
       /\ UNCHANGED <<students, courses, records, stats, reminders, settings,
                      userStates, pushes, reply, now>>

\* today's session is open and its end has just passed; nobody has checked in
InitRace ==
    /\ students = InitStudents
    /\ \E late \in LateInputs : courses = <<InitCourse(late)>>
    /\ now = [day |-> 1, min |-> CourseTime.end, ms |-> 1]
    /\ sessions = NewSession(<<>>, "c1", now.day, CourseTime.start, CourseTime.end)
    /\ records = <<>>
    /\ stats = InitStats
    /\ reminders = {[course |-> "c1", date |-> now.day]}
    /\ settings = [autoRemind |-> TRUE, remindMinutes |-> 1]
    /\ userStates = [u \in Tokens |-> NoState]
    /\ pushes = Prompts(EmptyBag, courses[1], 1)
    /\ reply = NoReply
    /\ proc = IdleProcs

NextRace ==
    \/ \E p \in Events, u \in Senders, c \in CourseIds : EvDeliver(p, u, c, 1)
    \/ \E p \in Events : EvLookup(p)
    \/ \E p \in Events : EvCheckExisting(p)
    \/ \E p \in Events : EvRaRead(p)
    \/ \E p \in AllProcs : RaAppend(p)
    \/ \E p \in AllProcs : RaStats(p)
    \/ \E p \in Events : EvRaNotify(p)
    \/ SwStart
    \/ SwMarkClosing
    \/ SwReadRows
    \/ SwRaRead
    \/ SwRaNotify
    \/ SwNotice
    \/ SwMarkClosed

SpecRace == InitRace /\ [][NextRace]_vars

\* ------------------------------------------------ registration and unbind
\* text messages: the commands 註冊, 解除綁定, 確認, identifiers of 6-10 digits (one
\* of a listed person, one new), a one-character text, a text of eleven characters
\* and a class code
Texts == {"register", "unbind", "confirm", "s1", "s5", "x", "toolongname", "A"}

\* text.length of the texts above (an identifier stands for six digits)
TextLength(text) ==
    CASE text = "x" -> 1
      [] text = "toolongname" -> 11
      [] text \in StudentIds -> 6
      [] OTHER -> 2

\* /^\d{6,10}$/.test(text)
ValidStudentId(text) == text \in StudentIds

\* !(text.length < 2 || text.length > 10)
ValidName(text) == ~(TextLength(text) < 2 \/ TextLength(text) > 10)

\* no reply is sent: the handler returned undefined or null
Silent(u) == [to |-> u, kind |-> "none", info |-> <<>>]

\* the 班級 cell as the class flows read it: split('、'), trim, drop empty parts.
\* "A+A" stands for the text 'A、A'; the other texts hold no separator
SplitClasses(text) ==
    IF text = "A+A" THEN <<"A", "A">> ELSE <<text>>

\* variant of registerStudent that refuses an identifier that is already listed
registerStudentNoRebind(rows, lineUserId, studentId, className, storeOk) ==
    LET i == FirstOf({k \in 1..Len(rows) : rows[k].id = studentId})
    IN IF ~storeOk THEN [students |-> rows, success |-> FALSE, message |-> "failed"]
       ELSE IF i # 0 THEN [students |-> rows, success |-> FALSE, message |-> "already"]
       ELSE [students |-> Append(rows, [id |-> studentId, classes |-> SplitClasses(className),
                                        lineId |-> lineUserId]),
             success |-> TRUE, message |-> "registered"]

\* variant of registerStudent that adds a row without looking for the identifier
registerStudentAppends(rows, lineUserId, studentId, className, storeOk) ==
    IF ~storeOk THEN [students |-> rows, success |-> FALSE, message |-> "failed"]
    ELSE [students |-> Append(rows, [id |-> studentId, classes |-> SplitClasses(className),
                                     lineId |-> lineUserId]),
          success |-> TRUE, message |-> "registered"]

\* registerStudent on the rows of 學生名單; storeOk is FALSE when the store throws
\* (caught: the result is a failure and no row is written)
registerStudent(rows, lineUserId, studentId, className, storeOk) ==
    LET i == FirstOf({k \in 1..Len(rows) : rows[k].id = studentId})
    IN IF ~storeOk THEN [students |-> rows, success |-> FALSE, message |-> "failed"]
       ELSE IF i # 0
            THEN IF rows[i].lineId = lineUserId
                 THEN [students |-> rows, success |-> FALSE, message |-> "already"]
                 ELSE [students |-> [rows EXCEPT ![i].lineId = lineUserId],
                       success |-> TRUE, message |-> "rebound"]
       ELSE [students |-> Append(rows, [id |-> studentId, classes |-> SplitClasses(className),
                                        lineId |-> lineUserId]),
             success |-> TRUE, message |-> "registered"]

\* the last step of registration, by text or by postback: registerStudent, then
\* userStates.delete, then the reply
CompleteRegistration(u, state, className, storeOk) ==
    LET result == registerStudent(students, u, state.studentId, className, storeOk)
    IN [students |-> result.students,
        ustate |-> NoState,
        reply |-> IF result.success THEN Reply(u, "registered", <<state.studentId>>)
                  ELSE Reply(u, "registerFailed", <<result.message>>)]

\* an outcome that leaves the store and the conversation state as they are
Keep(u, r) == [students |-> students, ustate |-> userStates[u], reply |-> r]

\* studentRow.set('LINE_ID', ''); save: the unbind of the '確認' command
ClearLineId(rows, studentId) ==
    LET i == FirstOf({k \in 1..Len(rows) : rows[k].id = studentId})
    IN IF i = 0 THEN rows ELSE [rows EXCEPT ![i].lineId = ""]

\* getClasses: the codes of 班級列表
getClasses == <<"A", "B">>

\* currentClasses.includes(c)
Includes(list, c) == \E i \in 1..Len(list) : list[i] = c

\* list.filter(c => c !== classCode)
RECURSIVE Without(_, _)
Without(list, classCode) ==
    IF list = <<>> THEN <<>>
    ELSE (IF Head(list) = classCode THEN <<>> ELSE <<Head(list)>>)
         \o Without(Tail(list), classCode)

\* availableClasses.filter(c => !currentClasses.includes(c.code))
RECURSIVE NotJoined(_, _)
NotJoined(available, currentClasses) ==
    IF available = <<>> THEN <<>>
    ELSE (IF Includes(currentClasses, Head(available)) THEN <<>> ELSE <<Head(available)>>)
         \o NotJoined(Tail(available), currentClasses)

\* toUpperCase of the texts: "b" is the only one that has a lower-case letter
ToUpperCase(text) == IF text = "b" THEN "B" ELSE text

\* allClasses.find(c => c.code === classCode ||
\*                      c.code.toUpperCase() === classCode.toUpperCase())
FindClass(classCode) ==
    LET i == FirstOf({k \in 1..Len(getClasses) :
                        \/ getClasses[k] = classCode
                        \/ ToUpperCase(getClasses[k]) = ToUpperCase(classCode)})
    IN IF i = 0 THEN <<>> ELSE <<getClasses[i]>>

\* variant of handleCommand that starts registration without looking up the sender
handleCommandAlwaysStarts(u, text) ==
    IF text = "register"
    THEN [students |-> students, ustate |-> [step |-> "studentId"],
          reply |-> Reply(u, "askStudentId", <<>>)]
    ELSE Keep(u, Reply(u, "menu", <<>>))

\* handleCommand on a text that is no check-in code, for a sender without a
\* conversation state
handleCommand(u, text) ==
    LET student == getStudent(u)
        state == userStates[u]
    IN IF text = "register"
       THEN IF student # <<>> THEN Keep(u, Reply(u, "alreadyRegistered", <<student[1].id>>))
            ELSE [students |-> students, ustate |-> [step |-> "studentId"],
                  reply |-> Reply(u, "askStudentId", <<>>)]
       ELSE IF text = "unbind"
       THEN IF student = <<>> THEN Keep(u, Reply(u, "notBound", <<>>))
            ELSE [students |-> students,
                  ustate |-> [step |-> "confirmUnbind", studentId |-> student[1].id],
                  reply |-> Reply(u, "confirmUnbind", <<student[1].id>>)]
       ELSE IF text = "confirm"
       THEN IF state.step = "confirmUnbind"
            THEN [students |-> ClearLineId(students, state.studentId),
                  ustate |-> NoState, reply |-> Reply(u, "unbound", <<>>)]
            ELSE Keep(u, Reply(u, "invalid", <<>>))
       ELSE IF text = "join"
       THEN IF student = <<>> THEN Keep(u, Reply(u, "notRegistered", <<>>))
            ELSE IF NotJoined(getClasses, student[1].classes) = <<>>
            THEN [students |-> students, ustate |-> NoState,
                  reply |-> Reply(u, "joinedAll", student[1].classes)]
            ELSE [students |-> students,
                  ustate |-> [step |-> "addNewClass", studentId |-> student[1].id],
                  reply |-> Reply(u, "askJoin", NotJoined(getClasses, student[1].classes))]
       ELSE IF text = "leave"
       THEN IF student = <<>> THEN Keep(u, Reply(u, "notRegistered", <<>>))
            ELSE IF Len(student[1].classes) <= 1 THEN Keep(u, Reply(u, "onlyOneClass", <<>>))
            ELSE [students |-> students,
                  ustate |-> [step |-> "removeClass", studentId |-> student[1].id,
                              currentClasses |-> student[1].classes],
                  reply |-> Reply(u, "askLeave", student[1].classes)]
       ELSE Keep(u, Reply(u, "menu", <<>>))

\* variant of handleRegistrationFlow that abandons the flow on an invalid input
handleRegistrationFlowResets(u, text, state, storeOk) ==
    IF state.step = "studentId"
    THEN IF ~ValidStudentId(text)
         THEN [students |-> students, ustate |-> NoState,
               reply |-> Reply(u, "badStudentId", <<>>)]
         ELSE [students |-> students,
               ustate |-> [step |-> "studentName", studentId |-> text],
               reply |-> Reply(u, "askName", <<text>>)]
    ELSE IF state.step = "studentName"
    THEN IF ~ValidName(text)
         THEN [students |-> students, ustate |-> NoState,
               reply |-> Reply(u, "badName", <<>>)]
         ELSE [students |-> students,
               ustate |-> [step |-> "className", studentId |-> state.studentId,
                           studentName |-> text],
               reply |-> Reply(u, "askClass", <<text>>)]
    ELSE IF state.step = "className" THEN CompleteRegistration(u, state, text, storeOk)
    ELSE Keep(u, Silent(u))

\* variant of handleRegistrationFlow that skips the name step
handleRegistrationFlowNoName(u, text, state, storeOk) ==
    IF state.step = "studentId"
    THEN IF ~ValidStudentId(text) THEN Keep(u, Reply(u, "badStudentId", <<>>))
         ELSE [students |-> students,
               ustate |-> [step |-> "className", studentId |-> text, studentName |-> text],
               reply |-> Reply(u, "askClass", <<text>>)]
    ELSE IF state.step = "className" THEN CompleteRegistration(u, state, text, storeOk)
    ELSE Keep(u, Silent(u))

\* handleRegistrationFlow: the switch on state.step; a step it has no case for
\* (waitingLocation, confirmUnbind) falls through and nothing is returned
handleRegistrationFlow(u, text, state, storeOk) ==
    IF state.step = "studentId"
    THEN IF ~ValidStudentId(text) THEN Keep(u, Reply(u, "badStudentId", <<>>))
         ELSE [students |-> students,
               ustate |-> [step |-> "studentName", studentId |-> text],
               reply |-> Reply(u, "askName", <<text>>)]
    ELSE IF state.step = "studentName"
    THEN IF ~ValidName(text) THEN Keep(u, Reply(u, "badName", <<>>))
         ELSE [students |-> students,
               ustate |-> [step |-> "className", studentId |-> state.studentId,
                           studentName |-> text],
               reply |-> Reply(u, "askClass", <<text>>)]
    ELSE IF state.step = "className" THEN CompleteRegistration(u, state, text, storeOk)
    ELSE Keep(u, Silent(u))

\* variant of handleAddNewClass that does not look at the classes already joined
handleAddNewClassAgain(u, text, state, storeOk) ==
    LET targetClass == FindClass(text)
        i == FirstOf({k \in 1..Len(students) : students[k].id = state.studentId})
    IN IF targetClass = <<>>
       THEN [students |-> students, ustate |-> NoState, reply |-> Reply(u, "noClass", <<text>>)]
       ELSE IF ~storeOk
       THEN [students |-> students, ustate |-> NoState, reply |-> Reply(u, "joinFailed", <<>>)]
       ELSE IF i = 0
       THEN [students |-> students, ustate |-> NoState, reply |-> Reply(u, "noPerson", <<>>)]
       ELSE [students |-> [students EXCEPT ![i].classes = Append(@, targetClass[1])],
             ustate |-> NoState,
             reply |-> Reply(u, "joined", Append(students[i].classes, targetClass[1]))]

\* handleAddNewClass on the text sent in step addNewClass; storeOk is FALSE when the
\* store throws (caught: the state is deleted and nothing is written)
handleAddNewClass(u, text, state, storeOk) ==
    LET targetClass == FindClass(text)
        i == FirstOf({k \in 1..Len(students) : students[k].id = state.studentId})
    IN IF targetClass = <<>>
       THEN [students |-> students, ustate |-> NoState, reply |-> Reply(u, "noClass", <<text>>)]
       ELSE IF ~storeOk
       THEN [students |-> students, ustate |-> NoState, reply |-> Reply(u, "joinFailed", <<>>)]
       ELSE IF i = 0
       THEN [students |-> students, ustate |-> NoState, reply |-> Reply(u, "noPerson", <<>>)]
       ELSE IF Includes(students[i].classes, targetClass[1])
       THEN [students |-> students, ustate |-> NoState,
             reply |-> Reply(u, "alreadyInClass", targetClass)]
       ELSE [students |-> [students EXCEPT ![i].classes = Append(@, targetClass[1])],
             ustate |-> NoState,
             reply |-> Reply(u, "joined", Append(students[i].classes, targetClass[1]))]

\* handleRemoveClass on the text sent in step removeClass: the classes written are
\* the ones stored in the state by the command, without the one named
handleRemoveClass(u, text, state, storeOk) ==
    LET i == FirstOf({k \in 1..Len(students) : students[k].id = state.studentId})
        newClasses == Without(state.currentClasses, text)
    IN IF ~Includes(state.currentClasses, text)
       THEN [students |-> students, ustate |-> NoState, reply |-> Reply(u, "notInClass", <<text>>)]
       ELSE IF ~storeOk \/ i = 0
       THEN [students |-> students, ustate |-> NoState, reply |-> Reply(u, "leaveFailed", <<>>)]
       ELSE [students |-> [students EXCEPT ![i].classes = newClasses],
             ustate |-> NoState, reply |-> Reply(u, "left", newClasses)]

\* variant of the text routing in which a text ends a pending location request
handleTextCancelsPending(u, text, storeOk) ==
    IF userStates[u].step = "waitingLocation"
    THEN [students |-> students, ustate |-> NoState, reply |-> Silent(u)]
    ELSE IF userStates[u].step = "addNewClass"
    THEN handleAddNewClass(u, text, userStates[u], storeOk)
    ELSE IF userStates[u].step = "removeClass"
    THEN handleRemoveClass(u, text, userStates[u], storeOk)
    ELSE IF userStates[u] # NoState
    THEN handleRegistrationFlow(u, text, userStates[u], storeOk)
    ELSE handleCommand(u, text)

\* handleEvent on a text that is no check-in code: a stored conversation state
\* sends it to handleAddNewClass, handleRemoveClass or handleRegistrationFlow, no
\* state to handleCommand
handleText(u, text, storeOk) ==
    IF userStates[u].step = "addNewClass"
    THEN handleAddNewClass(u, text, userStates[u], storeOk)
    ELSE IF userStates[u].step = "removeClass"
    THEN handleRemoveClass(u, text, userStates[u], storeOk)
    ELSE IF userStates[u] # NoState
    THEN handleRegistrationFlow(u, text, userStates[u], storeOk)
    ELSE handleCommand(u, text)

\* handlePostback on action=selectClass&class=<className>
handlePostback(u, className, storeOk) ==
    IF userStates[u].step = "className"
    THEN CompleteRegistration(u, userStates[u], className, storeOk)
    ELSE Keep(u, Silent(u))

\* the outcome of a text or postback handler written to the state
ApplyText(u, o) ==
    /\ students' = o.students
    /\ userStates' = [userStates EXCEPT ![u] = o.ustate]
    /\ reply' = o.reply
    /\ UNCHANGED <<courses, sessions, records, stats, reminders, settings, pushes, now, proc>>

OnText(u, text, storeOk) == ApplyText(u, handleText(u, text, storeOk))

OnPostback(u, className, storeOk) == ApplyText(u, handlePostback(u, className, storeOk))

\* a listed and linked person (u1), and a token that is not linked yet (u3)
RegSenders == {"u1", "u3"}

\* registration, unbind and venue check-ins against today's open session
NextRegister ==
    \/ \E u \in RegSenders, text \in Texts, storeOk \in BOOLEAN : OnText(u, text, storeOk)
    \/ \E u \in RegSenders, storeOk \in BOOLEAN : OnPostback(u, "A", storeOk)
    \/ \E u \in RegSenders, c \in CourseIds, sid \in SessionIds : OnDirectCheckin(u, c, sid)

SpecRegister == InitCheckin /\ [][NextRegister]_vars

\* ------------------------------- failures and the session endpoints
\* PUT /api/sessions/:id/end: the row with that 活動ID is saved as 已結束
putSessionEnd(sess, id) ==
    LET i == FirstOf({k \in 1..Len(sess) : sess[k].id = id})
    IN IF i = 0 THEN sess ELSE SaveStatus(sess, i, "closed")

PutSessionEnd(id) ==
    /\ sessions' = putSessionEnd(sessions, id)
    /\ UNCHANGED <<students, courses, records, stats, reminders, settings,
                   userStates, pushes, reply, now, proc>>

\* POST /api/sessions/:id/complete, the loop over classStudents: addRow of a 缺席 row
\* for each person whose 學號 is not among the session's rows read before the loop
RECURSIVE completeAbsences(_, _, _, _)
completeAbsences(recs, id, classStudents, snapshot) ==
    IF classStudents = <<>> THEN recs
    ELSE completeAbsences(
             IF ExistingRecord(snapshot, id, Head(classStudents).id) # <<>> THEN recs
             ELSE Append(recs, NewRecord(id, Head(classStudents).id, "absent", 0, <<>>)),
             id, Tail(classStudents), snapshot)

\* POST /api/sessions/:id/complete: the session is saved as 已結束, then the absent
\* rows are appended; 出席統計 is not updated and nothing is pushed
PostSessionComplete(id) ==
    LET i == FirstOf({k \in 1..Len(sessions) : sessions[k].id = id})
        course == getCourse(sessions[i].course)
    IN /\ IF i = 0 THEN UNCHANGED <<sessions, records>>
          ELSE /\ sessions' = SaveStatus(sessions, i, "closed")
               /\ records' = IF course = <<>> THEN records
                             ELSE completeAbsences(records, id,
                                                   ClassStudents(course[1].cls), records)
       /\ UNCHANGED <<students, courses, stats, reminders, settings,
                      userStates, pushes, reply, now, proc>>

\* recordAttendance in a check-in handler: the notification block throws (a sheet read
\* or pushMessage); the catch logs it and success is returned
EvRaNotifyFails(p) ==
    LET me == proc[p]
    IN /\ p \in Events
       /\ me.pc = "raNotify"
       /\ reply' = Reply(me.u, "checkedIn", <<me.call.status>>)
       /\ proc' = [proc EXCEPT ![p] = Done]
       /\ UNCHANGED <<students, courses, sessions, records, stats, reminders, settings,
                      userStates, pushes, now>>

\* recordAttendance called by the sweep: the notification block throws and is caught
SwRaNotifyFails ==
    LET me == proc[Sweeper]
    IN /\ me.pc = "raNotify"
       /\ proc' = [proc EXCEPT ![Sweeper] =
                      IF me.classStudents[me.k].lineId # "" THEN [me EXCEPT !.pc = "notice"]
                      ELSE SwContinue(me, me.k + 1)]
       /\ UNCHANGED <<students, courses, sessions, records, stats, reminders, settings,
                      userStates, pushes, reply, now>>

\* variant of the sweep's notice without the try/catch around pushMessage
NoticeUncaught(me) == Done

\* catch (e) { console.error('發送通知失敗:', e.message) }: the loop goes on
NoticeCaught(me) == SwContinue(me, me.k + 1)

\* the absence notice of checkAbsences: pushMessage throws
SwNoticeFails ==
    LET me == proc[Sweeper]
    IN /\ me.pc = "notice"
       /\ proc' = [proc EXCEPT ![Sweeper] = NoticeCaught(me)]
       /\ UNCHANGED <<students, courses, sessions, records, stats, reminders, settings,
                      userStates, pushes, reply, now>>

\* recordAttendance called by the sweep: sheet.addRow throws.  Neither recordAttendance
\* nor the loops of checkAbsences catch it: the outer catch logs it and the run ends
SwRaAppendThrows ==
    /\ proc[Sweeper].pc = "raAppend"
    /\ proc' = [proc EXCEPT ![Sweeper] = Done]
    /\ UNCHANGED <<students, courses, sessions, records, stats, reminders, settings,
                   userStates, pushes, reply, now>>

\* recordAttendance called by the sweep: updateStatistics throws after the row was
\* appended; the outer catch of checkAbsences ends the run
SwRaStatsThrows ==
    /\ proc[Sweeper].pc = "raStats"
    /\ proc' = [proc EXCEPT ![Sweeper] = Done]
    /\ UNCHANGED <<students, courses, sessions, records, stats, reminders, settings,
                   userStates, pushes, reply, now>>

\* two sessions of the course are open (the reminder's and a manual one) and their
\* end has just passed; nobody has checked in
InitFault ==
    /\ students = InitStudents
    /\ \E late \in LateInputs : courses = <<InitCourse(late)>>
    /\ now = [day |-> 1, min |-> CourseTime.end, ms |-> 1]
    /\ sessions = NewSession(NewSession(<<>>, "c1", now.day, CourseTime.start, CourseTime.end),
                             "c1", now.day, CourseTime.start, CourseTime.end)
    /\ records = <<>>
    /\ stats = InitStats
    /\ reminders = {[course |-> "c1", date |-> now.day]}
    /\ settings = [autoRemind |-> TRUE, remindMinutes |-> 1]
    /\ userStates = [u \in Tokens |-> NoState]
    /\ pushes = Prompts(EmptyBag, courses[1], 1)
    /\ reply = NoReply
    /\ proc = IdleProcs

\* one check-in handler and the sweep
FaultEvents == {"e1"}

\* a check-in and the sweep of today's session, with the messaging API failing at
\* any push
NextPushFault ==
    \/ \E p \in FaultEvents, u \in Senders, c \in CourseIds : EvDeliver(p, u, c, 1)
    \/ \E p \in FaultEvents : EvLookup(p)
    \/ \E p \in FaultEvents : EvCheckExisting(p)
    \/ \E p \in FaultEvents : EvRaRead(p)
    \/ \E p \in FaultEvents \cup {Sweeper} : RaAppend(p)
    \/ \E p \in FaultEvents \cup {Sweeper} : RaStats(p)
    \/ \E p \in FaultEvents : EvRaNotify(p)
    \/ \E p \in FaultEvents : EvRaNotifyFails(p)
    \/ SwStart
    \/ SwMarkClosing
    \/ SwReadRows
    \/ SwRaRead
    \/ SwRaNotify
    \/ SwRaNotifyFails
    \/ SwNotice
    \/ SwNoticeFails
    \/ SwMarkClosed

SpecPushFault == InitRace /\ [][NextPushFault]_vars

\* the sweep of two due sessions with the store failing inside recordAttendance,
\* venue check-ins and the two endpoints that end a session
NextFault ==
    \/ \E u \in Senders, c \in CourseIds, sid \in SessionIds : OnDirectCheckin(u, c, sid)
    \/ SwStart
    \/ SwMarkClosing
    \/ SwReadRows
    \/ SwRaRead
    \/ RaAppend(Sweeper)
    \/ RaStats(Sweeper)
    \/ SwRaNotify
    \/ SwNotice
    \/ SwMarkClosed
    \/ SwRaAppendThrows
    \/ SwRaStatsThrows
    \/ \E id \in SessionIds : PutSessionEnd(id)
    \/ \E id \in SessionIds : PostSessionComplete(id)

SpecFault == InitFault /\ [][NextFault]_vars

\* ------------------------------------------------- sessions of other dates
\* req.body.date of POST /api/sessions: today or tomorrow
Dates == {getTodayString, getTodayString + 1}

\* sessions posted by the admin client for today or tomorrow, and the sweep
NextDated ==
    \/ \E c \in CourseIds, d \in Dates : PostSession(c, d, CourseTime.start, CourseTime.end)
    \/ CheckAbsences
    \/ Tick

SpecDated == Init /\ [][NextDated]_vars

\* --------------------------------------------------- two sweeps overlapping
\* a second run of checkAbsences, started by cron while the first is at an await
Sweeper2 == "sw2"

\* the second run: const sessions = await sessionSheet.getRows()
Sw2Read ==
    /\ proc[Sweeper2].pc = "idle"
    /\ proc' = [proc EXCEPT ![Sweeper2] = [pc |-> "sweep", snapshot |-> sessions]]
    /\ UNCHANGED <<students, courses, sessions, records, stats, reminders, settings,
                   userStates, pushes, reply, now>>

\* the second run from its loop to its end, without another handler in between: the
\* loop tests 狀態 on the rows it read
Sw2Run ==
    LET me == proc[Sweeper2]
    IN /\ me.pc = "sweep"
       /\ sessions' = SweepFrom(1, me.snapshot, sessions, Db).sessions
       /\ SetDb(SweepFrom(1, me.snapshot, sessions, Db).db)
       /\ proc' = [proc EXCEPT ![Sweeper2] = Done]
       /\ UNCHANGED <<students, courses, reminders, settings, userStates, reply, now>>

\* two sessions of the course are open and due, two runs of checkAbsences are idle
InitOverlap ==
    /\ students = InitStudents
    /\ \E late \in LateInputs : courses = <<InitCourse(late)>>
    /\ now = [day |-> 1, min |-> CourseTime.end, ms |-> 1]
    /\ sessions = NewSession(NewSession(<<>>, "c1", now.day, CourseTime.start, CourseTime.end),
                             "c1", now.day, CourseTime.start, CourseTime.end)
    /\ records = <<>>
    /\ stats = InitStats
    /\ reminders = {[course |-> "c1", date |-> now.day]}
    /\ settings = [autoRemind |-> TRUE, remindMinutes |-> 1]
    /\ userStates = [u \in Tokens |-> NoState]
    /\ pushes = Prompts(EmptyBag, courses[1], 1)
    /\ reply = NoReply
    /\ proc = [p \in {Sweeper, Sweeper2} |-> [pc |-> "idle"]]

NextOverlap ==
    \/ SwStart
    \/ SwMarkClosing
    \/ SwReadRows
    \/ SwRaRead
    \/ RaAppend(Sweeper)
    \/ RaStats(Sweeper)
    \/ SwRaNotify
    \/ SwNotice
    \/ SwMarkClosed
    \/ Sw2Read
    \/ Sw2Run

SpecOverlap == InitOverlap /\ [][NextOverlap]_vars

\* ------------------------------------------- the sweep invoked again and again
\* cron's next tick after a run of checkAbsences has returned
SwAgain ==
    /\ proc[Sweeper].pc = "done"
    /\ proc' = [proc EXCEPT ![Sweeper] = [pc |-> "idle"]]
    /\ UNCHANGED <<students, courses, sessions, records, stats, reminders, settings,
                   userStates, pushes, reply, now>>

\* a step of a run in which no store operation throws, and the start of the next run
SweepStep ==
    \/ SwStart
    \/ SwMarkClosing
    \/ SwReadRows
    \/ SwRaRead
    \/ RaAppend(Sweeper)
    \/ RaStats(Sweeper)
    \/ SwRaNotify
    \/ SwNotice
    \/ SwMarkClosed
    \/ SwAgain

NextRecover ==
    \/ SweepStep
    \/ SwRaAppendThrows
    \/ SwRaStatsThrows

\* cron keeps invoking checkAbsences and a run that is not interrupted goes on; the
\* store may throw at any time, and need not
SpecRecover == InitFault /\ [][NextRecover]_vars /\ WF_vars(SweepStep)

\* ------------------------------------- a pending location among other events
\* DELETE /api/courses/:id: the first row with that id is deleted
deleteRow(rows, id) ==
    LET i == FirstOf({k \in 1..Len(rows) : rows[k].id = id})
    IN IF i = 0 THEN rows ELSE SubSeq(rows, 1, i - 1) \o SubSeq(rows, i + 1, Len(rows))

DeleteCourse(id) ==
    /\ getCourse(id) # <<>>
    /\ courses' = deleteRow(courses, id)
    /\ UNCHANGED <<students, sessions, records, stats, reminders, settings,
                   userStates, pushes, reply, now, proc>>

\* commands, and the identifier of the person linked to u1, which is also accepted
\* as a name and as a class
PendingTexts == {"register", "unbind", "confirm", "s1"}

\* a location at the classroom and one out of range
PendingLocations == {Classroom.lat, 13}

\* the conversation states of 加入班級 and 退出班級 (handleCommand), held by a person
\* who then sends a location
ClassFlowStates ==
    {[step |-> "addNewClass", studentId |-> "s2"],
     [step |-> "removeClass", studentId |-> "s2", currentClasses |-> <<"A", "B">>]}

\* today's session of the course is open; u1 is linked, u3 is not, u2 is idle or in
\* the middle of joining or leaving a class
InitPending ==
    /\ students = [InitStudents EXCEPT ![2].classes = <<"A", "B">>]
    /\ courses = <<InitCourse(1)>>
    /\ now = [day |-> 1, min |-> CourseTime.start - 1, ms |-> 1]
    /\ sessions = NewSession(<<>>, "c1", now.day, CourseTime.start, CourseTime.end)
    /\ records = <<>>
    /\ stats = InitStats
    /\ reminders = {[course |-> "c1", date |-> now.day]}
    /\ settings = [autoRemind |-> TRUE, remindMinutes |-> 1]
    /\ \E st \in {NoState} \cup ClassFlowStates :
          userStates = [u \in Tokens |-> IF u = "u2" THEN st ELSE NoState]
    /\ pushes = EmptyBag
    /\ reply = NoReply
    /\ proc = IdleProcs

\* every kind of event the webhook delivers, and the admin client editing the rows
NextPending ==
    \/ \E u \in RegSenders, text \in PendingTexts : OnText(u, text, TRUE)
    \/ \E u \in RegSenders : OnPostback(u, "A", TRUE)
    \/ \E u \in Senders, c \in CourseIds : OnDirectCheckin(u, c, 1)
    \/ \E u \in Senders, c \in CourseIds : OnCheckinRequest(u, c, 1)
    \/ \E u \in Senders, c \in CodeCourses : OnGPSCheckin(u, c, 1)
    \/ \E u \in Tokens, lat \in PendingLocations : OnLocation(u, lat)
    \/ \E r \in RadiusInputs : PutCourse("c1", [lat |-> <<>>, lon |-> <<>>, radius |-> <<r>>])
    \/ \E c \in CourseIds : DeleteCourse(c)

SpecPending == InitPending /\ [][NextPending]_vars

\* ------------------------------------------- a new gps code while waiting
\* a second geofenced course, of class B, three units from the first classroom
SecondCourse ==
    [id |-> "c2", cls |-> "B", weekday |-> 1,
     start |-> CourseTime.start, end |-> CourseTime.end,
     lat |-> 13, lon |-> Classroom.lon,
     radius |-> <<1>>, late |-> 1, active |-> TRUE]

TwoCourses == {"c1", "c2"}

\* both courses have today's session open and nobody has checked in
InitSupersede ==
    /\ students = InitStudents
    /\ courses = <<InitCourse(1), SecondCourse>>
    /\ now = [day |-> 1, min |-> CourseTime.start - 1, ms |-> 1]
    /\ sessions = NewSession(NewSession(<<>>, "c1", now.day, CourseTime.start, CourseTime.end),
                             "c2", now.day, CourseTime.start, CourseTime.end)
    /\ records = <<>>
    /\ stats = InitStats
    /\ reminders = {[course |-> c, date |-> now.day] : c \in TwoCourses}
    /\ settings = [autoRemind |-> TRUE, remindMinutes |-> 1]
    /\ userStates = [u \in Tokens |-> NoState]
    /\ pushes = EmptyBag
    /\ reply = NoReply
    /\ proc = IdleProcs

\* gps codes, venue codes and locations of one person for the two courses
NextSupersede ==
    \/ \E u \in Senders, c \in TwoCourses, sid \in SessionIds : OnGPSCheckin(u, c, sid)
    \/ \E u \in Senders, c \in TwoCourses, sid \in SessionIds : OnDirectCheckin(u, c, sid)
    \/ \E u \in Senders, lat \in Locations : OnLocation(u, lat)
    \/ Tick

SpecSupersede == InitSupersede /\ [][NextSupersede]_vars

\* ------------------------------------------------ joining and leaving a class
\* the commands 註冊, 加入班級, 退出班級, 解除綁定, 確認; the identifier of a listed
\* person and a new one (both also accepted as names); class codes as listed, in
\* lower case, and the text 'A、A'
ClassTexts == {"register", "join", "leave", "unbind", "confirm",
               "s1", "s5", "A", "B", "b", "A+A"}

\* the people as listed, nobody in a conversation, nothing recorded
InitClasses ==
    /\ students = InitStudents
    /\ courses = <<InitCourse(1)>>
    /\ now = [day |-> 1, min |-> CourseTime.start - 1, ms |-> 1]
    /\ sessions = NewSession(<<>>, "c1", now.day, CourseTime.start, CourseTime.end)
    /\ records = <<>>
    /\ stats = InitStats
    /\ reminders = {[course |-> "c1", date |-> now.day]}
    /\ settings = [autoRemind |-> TRUE, remindMinutes |-> 1]
    /\ userStates = [u \in Tokens |-> NoState]
    /\ pushes = EmptyBag
    /\ reply = NoReply
    /\ proc = IdleProcs

\* bot messages of a linked sender and of one that is not linked yet, one at a time
NextClasses ==
    \/ \E u \in RegSenders, text \in ClassTexts, storeOk \in BOOLEAN : OnText(u, text, storeOk)
    \/ \E u \in RegSenders, storeOk \in BOOLEAN : OnPostback(u, "A", storeOk)

SpecClasses == InitClasses /\ [][NextClasses]_vars

\* the texts of the class flows alone: a new person registers, joins and leaves
JoinLeaveTexts == {"register", "join", "leave", "s5", "A", "B", "b", "A+A"}

NextJoinLeave ==
    \/ \E u \in RegSenders, text \in JoinLeaveTexts, storeOk \in BOOLEAN :
          OnText(u, text, storeOk)

SpecJoinLeave == InitClasses /\ [][NextJoinLeave]_vars

\* ------------------------------------------- autoClassReminder cut short
\* the store operations of the loop body of autoClassReminder that can throw:
\* sessionSheet.addRow, studentSheet.getRows, reminderSheet.addRow
ReminderFaults == {"sessionAddRow", "studentsGetRows", "reminderAddRow"}

\* the loop of autoClassReminder when operation op throws at the first course that
\* is due: what was written before op stays, the outer catch ends the run
RECURSIVE RemindFromThrows(_, _, _, _, _, _)
RemindFromThrows(i, snapshot, sess, p, ledger, op) ==
    IF i > Len(courses) THEN [sessions |-> sess, pushes |-> p, reminders |-> ledger]
    ELSE IF \/ courses[i].weekday # now.day
            \/ ~courses[i].active
            \/ courses[i].start = 0
            \/ ~InReminderWindow(courses[i])
            \/ AlreadySent(snapshot, courses[i])
         THEN RemindFromThrows(i + 1, snapshot, sess, p, ledger, op)
    ELSE IF op = "sessionAddRow"
         THEN [sessions |-> sess, pushes |-> p, reminders |-> ledger]
    ELSE IF op = "studentsGetRows"
         THEN [sessions |-> NewSession(sess, courses[i].id, getTodayString,
                                       courses[i].start, courses[i].end),
               pushes |-> p, reminders |-> ledger]
    ELSE [sessions |-> NewSession(sess, courses[i].id, getTodayString,
                                  courses[i].start, courses[i].end),
          pushes |-> Prompts(p, courses[i], Len(sess) + 1),
          reminders |-> ledger]

\* a run of autoClassReminder in which a store operation throws for a due course
AutoClassReminderThrows(op) ==
    LET run == RemindFromThrows(1, reminders, sessions, pushes, reminders, op)
    IN /\ settings.autoRemind
       /\ \E i \in 1..Len(courses) :
             /\ courses[i].weekday = now.day
             /\ courses[i].active
             /\ courses[i].start # 0
             /\ InReminderWindow(courses[i])
             /\ ~AlreadySent(reminders, courses[i])
       /\ Len(run.sessions) <= MaxSessions
       /\ sessions' = run.sessions
       /\ pushes' = run.pushes
       /\ reminders' = run.reminders
       /\ UNCHANGED <<students, courses, records, stats, settings, userStates, reply, now, proc>>

\* the cron job alone, one run after the other, the store failing in some runs
NextRemindFault ==
    \/ AutoClassReminder
    \/ \E op \in ReminderFaults : AutoClassReminderThrows(op)
    \/ \E u \in Senders, c \in CourseIds, sid \in SessionIds : OnDirectCheckin(u, c, sid)
    \/ Tick

SpecRemindFault == Init /\ [][NextRemindFault]_vars

\* -------------------------------------------------- the statistics row
\* the records of a person who was on time a times, late l times and absent b times,
\* in sessions numbered from 11 on
History(a, l, b) ==
    [k \in 1..(a + l + b) |->
        NewRecord(10 + k, "s1",
                  IF k <= a THEN "on-time" ELSE IF k <= a + l THEN "late" ELSE "absent",
                  IF k > a /\ k <= a + l THEN 3 ELSE 0, <<>>)]

\* the sessions recordAttendance is called for: two new ones and one of the history
CallSessions == {1, 2, 11}

\* the person the calls are made for
CallStudents == {"s1"}

\* the statuses the callers pass
Statuses == {"on-time", "late", "absent"}

\* the sheets after a sequence of recordAttendance calls for s1
InitStatistics ==
    /\ students = InitStudents
    /\ courses = <<InitCourse(1)>>
    /\ now = [day |-> 1, min |-> CourseTime.start, ms |-> 1]
    /\ sessions = NewSession(NewSession(<<>>, "c1", now.day, CourseTime.start, CourseTime.end),
                             "c1", now.day, CourseTime.start, CourseTime.end)
    /\ \E a \in 0..MaxHistory, l \in 0..MaxHistory, b \in 0..MaxHistory :
          /\ records = History(a, l, b)
          /\ stats = [InitStats EXCEPT !["s1"] =
                         [attended |-> a + l, late |-> l, absent |-> b,
                          rate |-> IF a + l + b > 0 THEN RoundPercent(a + l, a + l + b)
                                   ELSE 0]]
    /\ reminders = {}
    /\ settings = [autoRemind |-> TRUE, remindMinutes |-> 1]
    /\ userStates = [u \in Tokens |-> NoState]
    /\ pushes = EmptyBag
    /\ reply = NoReply
    /\ proc = IdleProcs

\* one call of recordAttendance(sessionId, studentId, status, lateMinutes)
RecordAttendance(sessionId, studentId, status) ==
    LET result == recordAttendance(Db, sessionId, studentId, status,
                                   IF status = "late" THEN 3 ELSE 0, <<>>)
    IN /\ SetDb(result.db)
       /\ reply' = Reply(studentId, IF result.success THEN "recorded" ELSE "duplicate",
                         <<result.status>>)
       /\ UNCHANGED <<students, courses, sessions, reminders, settings, userStates, now, proc>>

NextStatistics ==
    \/ \E sid \in CallSessions, st \in CallStudents, status \in Statuses :
          RecordAttendance(sid, st, status)

SpecStatistics == InitStatistics /\ [][NextStatistics]_vars

\* -------------------------------- updateStatistics interleaved at its awaits
\* updateStatistics: const rows = await sheet.getRows(); statRow is the person's row
\* as it is now.  The awaits that follow (studentSheet.getRows, statRow.save) let
\* another handler run before the row is written
RaStatsRead(p) ==
    LET me == proc[p]
    IN /\ p \in Events
       /\ me.pc = "raStats"
       /\ proc' = [proc EXCEPT ![p] = [pc |-> "raStatsSave", u |-> me.u, call |-> me.call,
                                       statRow |-> stats[me.call.student]]]
       /\ UNCHANGED <<students, courses, sessions, records, stats, reminders, settings,
                      userStates, pushes, reply, now>>

\* updateStatistics: the counters are computed from the row read before and saved
RaStatsSave(p) ==
    LET me == proc[p]
        id == me.call.student
    IN /\ p \in Events
       /\ me.pc = "raStatsSave"
       /\ stats' = [stats EXCEPT ![id] =
                        updateStatistics([stats EXCEPT ![id] = me.statRow],
                                         id, me.call.status)[id]]
       /\ proc' = [proc EXCEPT ![p] = [pc |-> "raNotify", u |-> me.u, call |-> me.call]]
       /\ UNCHANGED <<students, courses, sessions, records, reminders, settings,
                      userStates, pushes, reply, now>>

\* two handlers of venue check-ins against the two open sessions of the course
NextStatsRace ==
    \/ \E p \in Events, u \in Senders, sid \in SessionIds : EvDeliver(p, u, "c1", sid)
    \/ \E p \in Events : EvLookup(p)
    \/ \E p \in Events : EvCheckExisting(p)
    \/ \E p \in Events : EvRaRead(p)
    \/ \E p \in Events : RaAppend(p)
    \/ \E p \in Events : RaStatsRead(p)
    \/ \E p \in Events : RaStatsSave(p)
    \/ \E p \in Events : EvRaNotify(p)

SpecStatsRace == InitFault /\ [][NextStatsRace]_vars

\* ------------------------------------------- the session a code resolves to
\* two courses; today's sessions are two of the first course, or one of each
InitMapping ==
    /\ students = InitStudents
    /\ courses = <<InitCourse(1), SecondCourse>>
    /\ now = [day |-> 1, min |-> CourseTime.start - 1, ms |-> 1]
    /\ \E c \in TwoCourses :
          sessions = NewSession(NewSession(<<>>, "c1", now.day,
                                           CourseTime.start, CourseTime.end),
                                c, now.day, CourseTime.start, CourseTime.end)
    /\ records = <<>>
    /\ stats = InitStats
    /\ reminders = {[course |-> c, date |-> now.day] : c \in TwoCourses}
    /\ settings = [autoRemind |-> TRUE, remindMinutes |-> 1]
    /\ userStates = [u \in Tokens |-> NoState]
    /\ pushes = EmptyBag
    /\ reply = NoReply
    /\ proc = IdleProcs

\* check-in codes with any course and session id, locations, and sessions being
\* ended by the admin client
NextMapping ==
    \/ \E u \in Senders, c \in TwoCourses, sid \in SessionIds : OnDirectCheckin(u, c, sid)
    \/ \E u \in Senders, c \in TwoCourses, sid \in SessionIds : OnGPSCheckin(u, c, sid)
    \/ \E u \in Senders, lat \in Locations : OnLocation(u, lat)
    \/ \E id \in SessionIds : PutSessionEnd(id)

SpecMapping == InitMapping /\ [][NextMapping]_vars

\* the learner's flows against today's session, which the sweep or the admin client
\* may close meanwhile
NextClosed ==
    \/ \E u \in Senders, c \in CourseIds, sid \in SessionIds : OnDirectCheckin(u, c, sid)
    \/ \E u \in Senders, c \in CourseIds, sid \in SessionIds : OnGPSCheckin(u, c, sid)
    \/ \E u \in Senders, lat \in Locations : OnLocation(u, lat)
    \/ \E id \in SessionIds : PutSessionEnd(id)
    \/ CheckAbsences
    \/ Tick

SpecClosed == InitCheckin /\ [][NextClosed]_vars

\* ------------------------------------------------------------- properties
\* the rows of recs for (sessionId, studentId)
RecordsOf(recs, sessionId, studentId) ==
    {k \in 1..Len(recs) : recs[k].session = sessionId /\ recs[k].student = studentId}

\* C1: in every reachable state there is at most one attendance record per
\* (session, person), whatever the interleaving of the recordAttendance calls of
\* two check-in events of one webhook batch and of checkAbsences at their awaits.
C1_OneRecordPerSessionPerson ==
    \A sid \in SessionIds, st \in StudentIds :
        Cardinality(RecordsOf(records, sid, st)) <= 1

\* C2: recordAttendance called for a (session, person) that already has a record
\* returns a failure carrying the existing record's status and leaves the records,
\* the statistics and the pushed notifications as they were.
C2_DuplicateRejected ==
    \A sid \in SessionIds, st \in StudentIds, status \in {"on-time", "late", "absent"},
       late \in {0, 1}, gps \in {<<>>, <<Classroom.lat, Classroom.lon>>} :
        RecordsOf(records, sid, st) # {} =>
            LET result == recordAttendance(Db, sid, st, status, late, gps)
                first == FirstOf(RecordsOf(records, sid, st))
            IN /\ ~result.success
               /\ result.status = records[first].status
               /\ result.db.records = records
               /\ result.db.stats = stats
               /\ result.db.pushes = pushes

\* C2 case: a location check-in ran into an existing record and was answered with
\* that record's status
C2_Witness ==
    /\ reply.kind = "duplicate"
    /\ \E k \in 1..Len(records) : reply.info = <<records[k].status>>

\* C3: with radius R > 0 and classroom coordinates set on the course row, a location
\* message creates a record only when its distance d from the classroom satisfies
\* d <= R (d = R is admitted when the person has no record yet); when d > R the
\* records and the statistics stay as they were.
C3_GeofenceAdmission ==
    [][\A u \in Senders, lat \in Locations :
         LET state == userStates[u]
             course == getCourse(state.courseId)[1]
             d == Abs(lat - course.lat)
             R == course.radius[1]
         IN ( /\ OnLocation(u, lat)
              /\ state.step = "waitingLocation"
              /\ getStudent(u) # <<>>
              /\ getCourse(state.courseId) # <<>>
              /\ course.radius # <<>>
              /\ R > 0
              /\ course.lat # 0
              /\ course.lon = Classroom.lon )
            => /\ d > R => (records' = records /\ stats' = stats)
               /\ (d <= R /\ RecordsOf(records, state.sessionId, getStudent(u)[1].id) = {})
                    => /\ Len(records') = Len(records) + 1
                       /\ records'[Len(records')].session = state.sessionId
                       /\ records'[Len(records')].student = getStudent(u)[1].id
                       /\ records'[Len(records')].gps = <<lat, Classroom.lon>>
       ]_vars

\* C3 case: a location exactly R metres from the classroom was admitted
C3_Witness ==
    /\ reply.kind = "checkedIn"
    /\ Len(reply.info) = 2
    /\ courses[1].radius = <<reply.info[2]>>
    /\ reply.info[2] > 0
    /\ records # <<>>
    /\ records[Len(records)].gps = <<Classroom.lat + reply.info[2], Classroom.lon>>

\* C4: a learner check-in that creates a record, m whole minutes after the session's
\* start time with late threshold T >= 1 on the course, creates it late with
\* minutesLate = m iff m > T, and otherwise on-time with minutesLate = 0.
C4_LateIffOverThreshold ==
    [][\A u \in Senders :
         ( /\ \/ \E c \in CodeCourses, sid \in SessionIds : OnDirectCheckin(u, c, sid)
              \/ \E c \in CodeCourses, sid \in SessionIds : OnGPSCheckin(u, c, sid)
              \/ \E lat \in Locations : OnLocation(u, lat)
           /\ Len(records') = Len(records) + 1 )
         => LET r == records'[Len(records')]
                session == sessions[CHOOSE k \in 1..Len(sessions) : sessions[k].id = r.session]
                T == getCourse(session.course)[1].late
                m == now.min - session.start
            IN /\ T >= 1
               /\ r.status \in {"late", "on-time"}
               /\ r.status = "late" <=> m > T
               /\ r.late = IF m > T THEN m ELSE 0
       ]_vars

\* C4 case: a check-in T + 1 minutes after the start was recorded late by T + 1
C4_Witness ==
    /\ reply.kind = "checkedIn"
    /\ reply.info[1] = "late"
    /\ now.min - CourseTime.start = courses[1].late + 1
    /\ records[Len(records)].status = "late"
    /\ records[Len(records)].late = courses[1].late + 1

\* C5: once checkAbsences has closed a session whose course exists, every person
\* enrolled in the course's class has exactly one record for the session.
C5_ClosedSessionOneRecordEach ==
    \A i \in 1..Len(sessions) :
        (sessions[i].status = "closed" /\ getCourse(sessions[i].course) # <<>>) =>
            \A k \in 1..Len(students) :
                Enrolled(students[k], getCourse(sessions[i].course)[1].cls) =>
                    Cardinality(RecordsOf(records, sessions[i].id, students[k].id)) = 1

\* C6: a run of checkAbsences closes every open session whose end has passed, and a
\* second run right after it changes nothing: no record, no notification, no
\* statistics counter, and the session stays closed.
C6_SecondSweepNoOp ==
    LET first == checkAbsences(sessions, Db)
        second == checkAbsences(first.sessions, first.db)
    IN /\ \A i \in 1..Len(sessions) :
            (sessions[i].status = "open" /\ EndPassed(sessions[i])) =>
                (first.sessions[i].status = "closed" /\ second.sessions[i].status = "closed")
       /\ second.db.records = first.db.records
       /\ second.db.pushes = first.db.pushes
       /\ second.db.stats = first.db.stats
       /\ second.sessions = first.sessions

\* C6 case: a session closed by the sweep, absences recorded, its end still passed
C6_Witness ==
    \E i \in 1..Len(sessions) :
        /\ sessions[i].status = "closed"
        /\ EndPassed(sessions[i])
        /\ \E k \in 1..Len(records) :
              records[k].session = sessions[i].id /\ records[k].status = "absent"
        /\ checkAbsences(sessions, Db) = [sessions |-> sessions, db |-> Db]

\* the absence notifications pushed to token for the session
AbsenceNotifications(token, sessionId) ==
    CopiesIn([to |-> token, kind |-> "absent", session |-> sessionId], pushes)
    + CopiesIn([to |-> token, kind |-> "absenceNotice", session |-> sessionId], pushes)

\* C7: a person with a messaging token whose absence checkAbsences recorded has
\* received exactly one absence notification for the session, and a person whose
\* record is not an absence has received none.
C7_OneAbsenceNotification ==
    \A sid \in SessionIds, k \in 1..Len(students) :
        students[k].lineId # "" =>
            AbsenceNotifications(students[k].lineId, sid) =
                IF \E j \in RecordsOf(records, sid, students[k].id) : records[j].status = "absent"
                THEN 1 ELSE 0

\* C8: for each (course, date) at most one session is open or closing.
C8_OneActiveSessionPerCourseDate ==
    \A i, j \in 1..Len(sessions) :
        ( /\ i # j
          /\ sessions[i].course = sessions[j].course
          /\ sessions[i].date = sessions[j].date
          /\ sessions[i].status \in {"open", "closing"} )
        => sessions[j].status \notin {"open", "closing"}

\* the sessions of (courseId, date) for which check-in prompts were pushed
PromptedSessions(p, sess, courseId, date) ==
    {k \in 1..Len(sess) :
        /\ sess[k].course = courseId
        /\ sess[k].date = date
        /\ \E m \in BagToSet(p) : m.kind = "prompt" /\ m.session = sess[k].id}

\* C9: two runs of autoClassReminder in a row on the same date inside a course's
\* reminder window create one session and one batch of prompts for the course: the
\* first run, when the ledger has no entry, appends one session, one prompt per
\* enrolled person with a token and the ledger entry; the second changes nothing.
C9_ReminderOnce ==
    LET first == autoClassReminder(sessions, pushes, reminders)
        second == autoClassReminder(first.sessions, first.pushes, first.reminders)
        due == {k \in 1..Len(courses) :
                  /\ settings.autoRemind
                  /\ courses[k].active
                  /\ courses[k].weekday = now.day
                  /\ courses[k].start # 0
                  /\ now.min >= courses[k].start - settings.remindMinutes
                  /\ now.min <= courses[k].start - settings.remindMinutes + 5}
    IN /\ second = first
       /\ \A c \in CourseIds :
             Cardinality(PromptedSessions(pushes, sessions, c, now.day)) <= 1
       /\ \A k \in due :
             /\ [course |-> courses[k].id, date |-> now.day] \in first.reminders
             /\ Cardinality(PromptedSessions(second.pushes, second.sessions,
                                             courses[k].id, now.day)) = 1
             /\ \A m \in BagToSet(second.pushes) :
                   m.kind = "prompt" => CopiesIn(m, second.pushes) = 1

\* C9 case: the first run has opened the session and pushed the prompts, and the
\* clock is still inside the reminder window when the next run starts
C9_Witness ==
    /\ InReminderWindow(courses[1])
    /\ courses[1].weekday = now.day
    /\ [course |-> "c1", date |-> now.day] \in reminders
    /\ Cardinality(PromptedSessions(pushes, sessions, "c1", now.day)) = 1
    /\ autoClassReminder(sessions, pushes, reminders).sessions = sessions

\* C10: a gps check-in for a course whose radius is -1 creates no record: the gps
\* code is answered venue-only without entering waitingLocation, and a location
\* message of a person already waiting is rejected whatever the location.
C10_VenueOnlyNeverRecords ==
    [][\A u \in Senders :
         /\ \A c \in CourseIds, sid \in SessionIds :
               (OnGPSCheckin(u, c, sid) /\ getCourse(c)[1].radius = <<-1>>)
               => (records' = records /\ stats' = stats /\ userStates' = userStates)
         /\ \A lat \in Locations :
               ( /\ OnLocation(u, lat)
                 /\ userStates[u].step = "waitingLocation"
                 /\ getCourse(userStates[u].courseId) # <<>>
                 /\ getCourse(userStates[u].courseId)[1].radius = <<-1>> )
               => (records' = records /\ stats' = stats)
       ]_vars

\* C10 case: the radius became -1 while the person was waiting, and a location at
\* the classroom itself was rejected
C10_Witness ==
    /\ reply.kind = "retryLocation"
    /\ reply.info = <<0, -1>>
    /\ courses[1].radius = <<-1>>
    /\ records = <<>>

C12_ThreeStrikes ==
    [][\A u \in Senders, lat \in Locations :
         LET state == userStates[u]
             fence == Geofence(getCourse(state.courseId)[1], state)
         IN /\ state.step = "waitingLocation" => state.retryCount \in {0, 1, 2}
            /\ (OnLocation(u, lat) /\ state.step # "waitingLocation")
               => (reply'.kind = "scanFirst" /\ records' = records /\ userStates' = userStates)
            /\ ( /\ OnLocation(u, lat)
                 /\ state.step = "waitingLocation"
                 /\ getStudent(u) # <<>>
                 /\ getCourse(state.courseId) # <<>>
                 /\ Abs(lat - fence.lat) > fence.radius )
               => /\ records' = records
                  /\ stats' = stats
                  /\ userStates'[u] = IF state.retryCount = 2 THEN NoState
                                      ELSE [state EXCEPT !.retryCount = state.retryCount + 1]
                  /\ reply'.kind = IF state.retryCount = 2 THEN "abandoned" ELSE "retryLocation"
       ]_vars

\* C12 case: the third out-of-range location in a row ended the flow without a record
C12_Witness ==
    /\ reply.kind = "abandoned"
    /\ userStates["u1"] = NoState
    /\ records = <<>>

\* C13: completing registration with an identifier listed under another token
\* succeeds and writes the new token on that person's row, so no row carries the old
\* token any more; a check-in code from a token no row carries creates no record, and
\* a record created by a check-in code is the record of the person the token is on.
C13_RebindSupersedes ==
    [][\A u \in RegSenders :
         /\ \A text \in Texts :
               LET state == userStates[u]
                   i == FirstOf({k \in 1..Len(students) : students[k].id = state.studentId})
               IN ( /\ OnText(u, text, TRUE) \/ (text = "A" /\ OnPostback(u, text, TRUE))
                    /\ state.step = "className"
                    /\ i # 0
                    /\ students[i].lineId \notin {u, ""} )
                  => /\ students' = [students EXCEPT ![i].lineId = u]
                     /\ reply' = Reply(u, "registered", <<state.studentId>>)
                     /\ \A k \in 1..Len(students') : students'[k].lineId # students[i].lineId
         /\ \A c \in CourseIds, sid \in SessionIds :
               OnDirectCheckin(u, c, sid)
               => IF \A k \in 1..Len(students) : students[k].lineId # u
                  THEN records' = records /\ reply'.kind = "notRegistered"
                  ELSE records' # records
                       => \E k \in 1..Len(students) :
                             /\ students[k].lineId = u
                             /\ records' = Append(records, records'[Len(records')])
                             /\ records'[Len(records')].student = students[k].id
       ]_vars

\* C13 case: the person first listed under u1 is now under u3, and the check-in code
\* u3 sent was recorded for that person
C13_Witness ==
    /\ students[1].id = "s1"
    /\ students[1].lineId = "u3"
    /\ reply.to = "u3"
    /\ reply.kind = "checkedIn"
    /\ RecordsOf(records, 1, "s1") # {}

\* C14 as stated: the register command from a token that is on a person's row is
\* answered 'already registered', whatever conversation state the token has, and
\* changes neither the conversation states nor the rows.
C14_AlreadyRegisteredAnswered ==
    [][\A u \in RegSenders, storeOk \in BOOLEAN :
         (OnText(u, "register", storeOk) /\ getStudent(u) # <<>>)
         => /\ reply'.kind = "alreadyRegistered"
            /\ userStates' = userStates
            /\ students' = students
       ]_vars

\* C14 amended: the register command from a token that is on a person's row and has
\* no conversation state is answered 'already registered' and changes neither the
\* conversation states nor the rows; registerStudent with an identifier whose row
\* already carries the same token fails and returns the rows as they were.
C14_AlreadyRegisteredWhenIdle ==
    [][/\ \A u \in RegSenders, storeOk \in BOOLEAN :
            (OnText(u, "register", storeOk) /\ getStudent(u) # <<>> /\ userStates[u] = NoState)
            => /\ reply' = Reply(u, "alreadyRegistered", <<getStudent(u)[1].id>>)
               /\ userStates' = userStates
               /\ students' = students
       /\ \A k \in 1..Len(students), className \in Texts, storeOk \in BOOLEAN :
            students[k].lineId # "" =>
                LET result == registerStudent(students, students[k].lineId, students[k].id,
                                              className, storeOk)
                IN ~result.success /\ result.students = students
       ]_vars

\* C14 case: a linked and idle sender asked to register and was told it already is
C14_Witness ==
    /\ reply = Reply("u1", "alreadyRegistered", <<"s1">>)
    /\ userStates["u1"] = NoState
    /\ getStudent("u1") # <<>>

\* C19: registration moves idle -> studentId -> studentName -> className -> idle: the
\* register command of an unlinked idle token stores step studentId, a valid
\* identifier moves to studentName, a valid name to className, and a class (text or
\* postback) deletes the state whether registerStudent succeeded or not.  A row is
\* appended or given a token only by that last step, and a postback in any other
\* step changes nothing.
C19_RegistrationSequence ==
    [][\A u \in RegSenders :
         LET state == userStates[u]
         IN /\ \A text \in Texts, storeOk \in BOOLEAN :
                 OnText(u, text, storeOk)
                 => /\ (state = NoState /\ text = "register" /\ getStudent(u) = <<>>)
                          => userStates'[u] = [step |-> "studentId"]
                    /\ (state = NoState /\ ~(text = "register" /\ getStudent(u) = <<>>))
                          => userStates'[u].step \notin {"studentId", "studentName", "className"}
                    /\ state.step = "studentId"
                          => userStates'[u] = IF ValidStudentId(text)
                                              THEN [step |-> "studentName", studentId |-> text]
                                              ELSE state
                    /\ state.step = "studentName"
                          => userStates'[u] = IF ValidName(text)
                                              THEN [step |-> "className",
                                                    studentId |-> state.studentId,
                                                    studentName |-> text]
                                              ELSE state
                    /\ state.step = "className" => userStates'[u] = NoState
                    /\ state.step # "className" => students' = students
            /\ \A storeOk \in BOOLEAN :
                 OnPostback(u, "A", storeOk)
                 => IF state.step = "className" THEN userStates'[u] = NoState
                    ELSE students' = students /\ userStates' = userStates
            /\ ( \E k \in 1..Len(students') :
                    /\ students'[k].lineId = u
                    /\ (k > Len(students) \/ students[k].lineId # u) )
               => (state.step = "className" /\ userStates'[u] = NoState)
       ]_vars

\* C19 case: the unlinked token went through the three steps and a new row carries it
C19_Witness ==
    /\ reply = Reply("u3", "registered", <<"s5">>)
    /\ userStates["u3"] = NoState
    /\ \E k \in 1..Len(students) : students[k].id = "s5" /\ students[k].lineId = "u3"

\* C20: the confirmation keyword received in state confirmUnbind clears the token on
\* the person's row and deletes the conversation state.
C20_ConfirmUnbinds ==
    [][\A u \in RegSenders, storeOk \in BOOLEAN :
         (OnText(u, "confirm", storeOk) /\ userStates[u].step = "confirmUnbind")
         => /\ userStates'[u] = NoState
            /\ \A k \in 1..Len(students') : students'[k].lineId # u
       ]_vars

\* C15: the state of a session changes only from open to closing and from closing to
\* closed, and only in the steps of checkAbsences that save the session row.
C15_OnlySweepMovesState ==
    [][\A i \in 1..Len(sessions) :
         sessions'[i].status # sessions[i].status
         => /\ <<sessions[i].status, sessions'[i].status>>
                  \in {<<"open", "closing">>, <<"closing", "closed">>}
            /\ SwMarkClosing \/ SwMarkClosed
       ]_vars

\* C16: a record appended by a learner's check-in is on-time or late, and a record
\* with status absent is appended only by recordAttendance called from checkAbsences.
C16_AbsentOnlyFromSweep ==
    [][\A k \in (Len(records) + 1)..Len(records') :
         IF records'[k].status = "absent" THEN RaAppend(Sweeper)
         ELSE /\ records'[k].status \in {"on-time", "late"}
              /\ \E u \in Senders, c \in CourseIds, sid \in SessionIds :
                    OnDirectCheckin(u, c, sid)
       ]_vars

\* C17: when a run of checkAbsences ends, every session that was due when it started
\* is closed and every enrolled person has a record for it, also when a store
\* operation of recordAttendance threw for one person.
C17_SweepSurvivesStoreFailure ==
    [][(proc[Sweeper].pc \notin {"idle", "done"} /\ proc'[Sweeper].pc = "done")
       => \A i \in 1..Len(proc[Sweeper].snapshot) :
             (proc[Sweeper].snapshot[i].status = "open" /\ EndPassed(proc[Sweeper].snapshot[i]))
             => /\ sessions'[i].status = "closed"
                /\ \A j \in 1..Len(students) :
                      Enrolled(students[j], "A")
                      => RecordsOf(records', sessions'[i].id, students[j].id) # {}
      ]_vars

\* C18: a failing push changes neither the records nor the statistics: the check-in
\* whose notification failed is on record, counted, and answered as a success; the
\* sweep whose notification or absence notice failed keeps the absence record, goes on
\* with the next person or with closing the session, and when the run has ended the
\* session is closed.
C18_PushFailureKeepsState ==
    [][/\ \A p \in FaultEvents :
            EvRaNotifyFails(p)
            => /\ records' = records
               /\ stats' = stats
               /\ \E k \in 1..Len(records') : records'[k] = proc[p].call
               /\ stats'[proc[p].call.student].attended >= 1
               /\ reply' = Reply(proc[p].u, "checkedIn", <<proc[p].call.status>>)
       /\ (SwRaNotifyFails \/ SwNoticeFails)
            => /\ records' = records
               /\ stats' = stats
               /\ sessions' = sessions
               /\ \E k \in 1..Len(records') :
                     records'[k] = proc[Sweeper].call /\ records'[k].status = "absent"
               /\ stats'[proc[Sweeper].call.student].absent >= 1
               /\ proc'[Sweeper].pc \in {"notice", "raRead", "markClosed"}
       /\ proc'[Sweeper].pc = "done"
            => \A i \in 1..Len(sessions') : sessions'[i].status = "closed"
       ]_vars

\* C18 case: the run has ended and the session is closed; the absence of s2 is on
\* record although neither the status notification nor the absence notice reached u2
C18_Witness ==
    /\ proc[Sweeper].pc = "done"
    /\ sessions[1].status = "closed"
    /\ \E k \in 1..Len(records) : records[k].student = "s2" /\ records[k].status = "absent"
    /\ stats["s2"].absent = 1
    /\ \A m \in BagToSet(pushes) : m.to = "u2" => m.kind = "prompt"

\* C21: in state confirmUnbind a text other than the confirmation keyword deletes
\* the conversation state and leaves the token on the person's row.
C21_OtherTextCancelsUnbind ==
    [][\A u \in RegSenders, text \in Texts \ {"confirm"}, storeOk \in BOOLEAN :
         (OnText(u, text, storeOk) /\ userStates[u].step = "confirmUnbind")
         => /\ userStates'[u] = NoState
            /\ students' = students
       ]_vars

\* C30: at step studentId a text that is no identifier of 6 to 10 digits, and at step
\* studentName a text shorter than 2 or longer than 10 characters, is answered with
\* the corrective prompt and changes neither the conversation states nor the rows;
\* either step is left only on a valid input.
C30_InvalidInputKeepsStep ==
    [][\A u \in RegSenders, text \in Texts, storeOk \in BOOLEAN :
         LET state == userStates[u]
         IN OnText(u, text, storeOk)
            => /\ (state.step = "studentId" /\ ~ValidStudentId(text))
                  => /\ userStates' = userStates
                     /\ students' = students
                     /\ reply' = Reply(u, "badStudentId", <<>>)
               /\ (state.step = "studentName"
                     /\ (TextLength(text) < 2 \/ TextLength(text) > 10))
                  => /\ userStates' = userStates
                     /\ students' = students
                     /\ reply' = Reply(u, "badName", <<>>)
               /\ (state.step = "studentId" /\ userStates'[u] # state)
                  => ValidStudentId(text) /\ userStates'[u].step = "studentName"
               /\ (state.step = "studentName" /\ userStates'[u] # state)
                  => /\ TextLength(text) \in 2..10
                     /\ userStates'[u].step = "className"
                     /\ userStates'[u].studentId = state.studentId
       ]_vars

\* C30 case: the name of eleven characters was refused and the flow is still at the
\* name step with the identifier given before
C30_Witness ==
    /\ reply = Reply("u3", "badName", <<>>)
    /\ userStates["u3"] = [step |-> "studentName", studentId |-> "s5"]
    /\ \A k \in 1..Len(students) : students[k].id # "s5"

\* C22: a run of checkAbsences leaves a session as it was, and adds no record for it,
\* unless the session is open, is dated today or earlier, and its end time has passed.
C22_SweepOnlyDueSessions ==
    [][CheckAbsences
       => \A i \in 1..Len(sessions) :
             ( \/ sessions[i].status # "open"
               \/ sessions[i].date > getTodayString
               \/ ~EndPassed(sessions[i]) )
             => /\ sessions'[i] = sessions[i]
                /\ \A k \in 1..Len(records') :
                      records'[k].session = sessions[i].id => k <= Len(records)
       ]_vars

\* C23: a run of checkAbsences starts on a session, and writes for it, only when no
\* run has started on it before: the session is still open when the run marks it
\* closing, and a run changes no session that is closing or closed when it acts.
C23_OneSweepPerSession ==
    [][/\ SwMarkClosing
            => \A i \in 1..Len(sessions) :
                  sessions'[i] # sessions[i] => sessions[i].status = "open"
       /\ Sw2Run
            => \A i \in 1..Len(sessions) :
                  sessions[i].status # "open"
                  => /\ sessions'[i] = sessions[i]
                     /\ \A k \in 1..Len(records') :
                           records'[k].session = sessions[i].id => k <= Len(records)
       ]_vars

\* C24: a session that is closing is closed at some later time, also when the run
\* that marked it closing was ended by a store failure, as long as checkAbsences keeps
\* being invoked.
C24_ClosingLeadsToClosed ==
    \A i \in 1..2 :
        (Len(sessions) >= i /\ sessions[i].status = "closing")
        ~> (sessions[i].status = "closed")

\* C25: a location sent while waiting is judged by the geofence on the course row at
\* that moment: with coordinates and a positive radius on the row the learner is
\* admitted exactly when the distance is within that radius, and with radius 0 or a
\* coordinate removed the learner is admitted whatever the distance.
C25_FreshGeofenceDecides ==
    [][\A u \in Senders, lat \in Locations :
         LET state == userStates[u]
             course == getCourse(state.courseId)
             admitted == userStates'[u] = NoState /\ reply'.kind \in {"checkedIn", "duplicate"}
         IN ( /\ OnLocation(u, lat)
              /\ state.step = "waitingLocation"
              /\ getStudent(u) # <<>>
              /\ course # <<>>
              /\ course[1].radius # <<>> )
            => IF course[1].radius[1] = 0 \/ course[1].lat = 0 \/ course[1].lon = 0
               THEN admitted
               ELSE course[1].radius[1] > 0
                    => (admitted <=> calculateDistance(lat, Classroom.lon, course[1].lat,
                                                       course[1].lon) <= course[1].radius[1])
       ]_vars

\* C28: an admitted location deletes the conversation state whether recordAttendance
\* appended the record or found one: with a record already there the reply quotes its
\* status and neither the records nor the statistics change.
C28_AdmittedClearsState ==
    [][\A u \in Senders, lat \in Locations :
         LET state == userStates[u]
             student == getStudent(u)
             course == getCourse(state.courseId)
             fence == Geofence(course[1], state)
             existing == ExistingRecord(records, state.sessionId, student[1].id)
         IN ( /\ OnLocation(u, lat)
              /\ state.step = "waitingLocation"
              /\ student # <<>>
              /\ course # <<>>
              /\ calculateDistance(lat, Classroom.lon, fence.lat, fence.lon) <= fence.radius )
            => /\ userStates'[u] = NoState
               /\ IF existing # <<>>
                  THEN /\ records' = records
                       /\ stats' = stats
                       /\ reply' = Reply(u, "duplicate", <<existing[1].status>>)
                  ELSE /\ records' = Append(records, records'[Len(records')])
                       /\ records'[Len(records')].session = state.sessionId
                       /\ records'[Len(records')].student = student[1].id
                       /\ reply'.kind = "checkedIn"
       ]_vars

\* C28 case: the person checked in by the direct code while waiting, and the in-range
\* location sent afterwards was answered with the prior status; one record, no state
C28_Witness ==
    /\ reply.to = "u1"
    /\ reply.kind = "duplicate"
    /\ userStates["u1"] = NoState
    /\ Len(records) = 1
    /\ records[1].gps = <<>>
    /\ reply.info = <<records[1].status>>

\* the course row carries coordinates and a positive radius
Geofenced(course) ==
    course.lat # 0 /\ course.lon # 0 /\ ParseRadius(course) > 0

\* C26 as stated: a gps code of a registered person for a geofenced course with a
\* session that is not closed, received while the person is waiting to send a
\* location, stores the context of the new course and session with retry counter 0.
C26_NewCodeReplacesPending ==
    [][\A u \in Senders, c \in TwoCourses, sid \in SessionIds :
         ( /\ OnGPSCheckin(u, c, sid)
           /\ userStates[u].step = "waitingLocation"
           /\ getStudent(u) # <<>>
           /\ getCourse(c) # <<>>
           /\ Geofenced(getCourse(c)[1])
           /\ ResolveSession(c, sid) # <<>> )
         => userStates'[u] = WaitingLocation(getCourse(c)[1], ResolveSession(c, sid)[1])
       ]_vars

\* C26 amended: the same for a person who has no record for that session yet (with a
\* record the code is answered 'already checked in' and the pending context stays);
\* and a location sent while waiting is judged by the geofence of the course in the
\* stored context and recorded for the session in the stored context only.
C26_NewCodeReplacesPendingUnlessRecorded ==
    [][\A u \in Senders :
         LET state == userStates[u]
             student == getStudent(u)
         IN /\ \A c \in TwoCourses, sid \in SessionIds :
                 LET course == getCourse(c)
                     session == ResolveSession(c, sid)
                 IN ( /\ OnGPSCheckin(u, c, sid)
                      /\ state.step = "waitingLocation"
                      /\ student # <<>>
                      /\ course # <<>>
                      /\ Geofenced(course[1])
                      /\ session # <<>> )
                    => IF checkExistingAttendance(session[1].id, student[1].id) = <<>>
                       THEN /\ userStates'[u] = WaitingLocation(course[1], session[1])
                            /\ userStates'[u].courseId = c
                            /\ userStates'[u].retryCount = 0
                            /\ records' = records
                       ELSE userStates'[u] = state /\ reply'.kind = "alreadyCheckedIn"
            /\ \A lat \in Locations :
                 LET course == getCourse(state.courseId)
                 IN ( /\ OnLocation(u, lat)
                      /\ state.step = "waitingLocation"
                      /\ student # <<>>
                      /\ course # <<>> )
                    => /\ \A k \in (Len(records) + 1)..Len(records') :
                             records'[k].session = state.sessionId
                       /\ (Len(records') > Len(records))
                             => calculateDistance(lat, Classroom.lon, course[1].lat,
                                                  course[1].lon) <= course[1].radius[1]
                       /\ (calculateDistance(lat, Classroom.lon, course[1].lat,
                                             course[1].lon) > course[1].radius[1])
                             => reply'.kind \in {"retryLocation", "abandoned"}
       ]_vars

\* C26 case: the person waited for the first course, sent the gps code of the second,
\* and the location at the second classroom (out of range of the first) was recorded
\* for the second course's session only
C26_Witness ==
    /\ reply.to = "u1"
    /\ reply.kind = "checkedIn"
    /\ Len(reply.info) = 2
    /\ userStates["u1"] = NoState
    /\ Len(records) = 1
    /\ records[1].session = 2
    /\ records[1].gps = <<13, Classroom.lon>>

\* C27: a waiting-for-location state is deleted or replaced only by a location message
\* (in range, third out of range, or with the person or the course gone) or by a gps
\* code that is answered with a new location request; an out-of-range location before
\* the third changes only its retry counter; a text, a postback, a direct or legacy
\* code, and a gps code that is rejected or recorded at once leave it as it was.
C27_PendingLocationFrame ==
    [][\A u \in RegSenders :
         LET state == userStates[u]
         IN state.step = "waitingLocation"
            => /\ \A text \in PendingTexts : OnText(u, text, TRUE) => userStates'[u] = state
               /\ OnPostback(u, "A", TRUE) => userStates'[u] = state
               /\ \A c \in CodeCourses :
                     /\ OnDirectCheckin(u, c, 1) => userStates'[u] = state
                     /\ OnCheckinRequest(u, c, 1) => userStates'[u] = state
                     /\ (OnGPSCheckin(u, c, 1) /\ reply'.kind # "sendLocation")
                           => userStates'[u] = state
               /\ userStates'[u] # state
                  => \/ /\ \E c \in CodeCourses : OnGPSCheckin(u, c, 1)
                        /\ reply'.kind = "sendLocation"
                        /\ userStates'[u].step = "waitingLocation"
                        /\ userStates'[u].retryCount = 0
                     \/ /\ \E lat \in PendingLocations : OnLocation(u, lat)
                        /\ IF reply'.kind = "retryLocation"
                           THEN userStates'[u] = [state EXCEPT !.retryCount = @ + 1]
                           ELSE /\ userStates'[u] = NoState
                                /\ reply'.kind \in {"checkedIn", "duplicate", "abandoned",
                                                    "notRegistered", "noCourse"}
       ]_vars

\* C27 case: a text or a postback of the waiting person got no answer and the state,
\* with one retry counted, is still there
C27_Witness ==
    /\ reply = Silent("u1")
    /\ userStates["u1"].step = "waitingLocation"
    /\ userStates["u1"].retryCount = 1

\* C29: a location message of a sender whose conversation state is not the waiting-
\* for-location state is answered 'scan a check-in code first' and changes neither the
\* conversation states nor the records nor the statistics.
C29_StrayLocationChangesNothing ==
    [][\A u \in Tokens, lat \in PendingLocations :
         (OnLocation(u, lat) /\ userStates[u].step # "waitingLocation")
         => /\ userStates' = userStates
            /\ records' = records
            /\ stats' = stats
            /\ reply' = Reply(u, "scanFirst", <<>>)
       ]_vars

\* C29 case: locations were answered 'scan first' while the unlinked sender is at the
\* class step of registration and u2 is still in the middle of leaving a class
C29_Witness ==
    /\ reply.kind = "scanFirst"
    /\ reply.to = "u3"
    /\ userStates["u3"].step = "className"
    /\ userStates["u2"].step = "removeClass"
    /\ records = <<>>

\* the classes a person belongs to
Memberships(student) == {student.classes[i] : i \in 1..Len(student.classes)}

\* C31: the leave command of a person who belongs to at most one class is refused and
\* stores no conversation state; no bot message takes the last class from a person
\* who belongs to one; and a completed leave removes exactly the named class from the
\* person's memberships.
C31_LeaveKeepsOneClass ==
    [][\A u \in RegSenders, text \in ClassTexts, storeOk \in BOOLEAN :
         OnText(u, text, storeOk)
         => LET state == userStates[u]
                student == getStudent(u)
            IN /\ ( /\ text = "leave"
                    /\ state = NoState
                    /\ student # <<>>
                    /\ Cardinality(Memberships(student[1])) <= 1 )
                  => /\ userStates'[u] = NoState
                     /\ students' = students
                     /\ reply'.kind = "onlyOneClass"
               /\ \A k \in 1..Len(students) :
                     Memberships(students[k]) # {} => Memberships(students'[k]) # {}
               /\ (state.step = "removeClass" /\ reply'.kind = "left")
                  => \E k \in 1..Len(students) :
                        /\ students[k].id = state.studentId
                        /\ Memberships(students'[k]) = Memberships(students[k]) \ {text}
                        /\ \A j \in 1..Len(students) : j # k => students'[j] = students[j]
       ]_vars

\* number of times class c is listed
RECURSIVE Listed(_, _)
Listed(list, c) ==
    IF list = <<>> THEN 0
    ELSE (IF Head(list) = c THEN 1 ELSE 0) + Listed(Tail(list), c)

C33_ReminderOnceDespiteFailure ==
    \A c \in CourseIds :
        /\ Cardinality({k \in 1..Len(sessions) :
                           sessions[k].course = c /\ sessions[k].date = getTodayString}) <= 1
        /\ Cardinality(PromptedSessions(pushes, sessions, c, getTodayString)) <= 1

\* number of records of a person with a status in the given set
RecordCount(recs, studentId, statuses) ==
    Cardinality({k \in 1..Len(recs) :
                    recs[k].student = studentId /\ recs[k].status \in statuses})

OwningCourse(sessionId) ==
    {sessions[k].course : k \in {j \in 1..Len(sessions) : sessions[j].id = sessionId}}

\* C36: the record a check-in code creates, and the session a gps code stores for the
\* location to come, is a session of the course named in the code.
C36_RecordedSessionOfCodeCourse ==
    [][\A u \in Senders, c \in TwoCourses, sid \in SessionIds :
         /\ (OnDirectCheckin(u, c, sid) \/ OnGPSCheckin(u, c, sid))
            => \A k \in (Len(records) + 1)..Len(records') :
                  OwningCourse(records'[k].session) = {c}
         /\ (OnGPSCheckin(u, c, sid) /\ reply'.kind = "sendLocation")
            => OwningCourse(userStates'[u].sessionId) = {c}
       ]_vars

\* C37: when the session named in a check-in code is a session of the code's course
\* that is not closed, the record the code creates, and the session a gps code stores
\* for the location to come, is that session.
C37_RecordedSessionIsNamed ==
    [][\A u \in Senders, c \in TwoCourses, sid \in SessionIds :
         (SessionById(sid) # <<>> /\ SessionById(sid)[1].course = c)
         => /\ (OnDirectCheckin(u, c, sid) \/ OnGPSCheckin(u, c, sid))
               => \A k \in (Len(records) + 1)..Len(records') : records'[k].session = sid
            /\ (OnGPSCheckin(u, c, sid) /\ reply'.kind = "sendLocation")
               => userStates'[u].sessionId = sid
       ]_vars

\* C38: no step appends an on-time or late record for a session that is closed when
\* the record is written.
C38_NoRecordForClosedSession ==
    [][\A k \in (Len(records) + 1)..Len(records') :
         records'[k].status \in {"on-time", "late"}
         => \A i \in 1..Len(sessions) :
               sessions[i].id = records'[k].session => sessions[i].status # "closed"
       ]_vars

\* C39: a record appended by a check-in code has no geolocation, one appended by the
\* sweep is absent with 0 minutes and no geolocation, and one appended after a
\* location has that location, which is in range; an on-time record has 0 minutes
\* late, and a late one has more minutes than the threshold applied (the course's for
\* a code, the one stored with the pending context for a location).
C39_RecordFields ==
    [][\A k \in (Len(records) + 1)..Len(records') :
         LET rec == records'[k]
         IN /\ rec.status \in Statuses
            /\ rec.status = "on-time" => rec.late = 0
            /\ rec.status = "absent" => (rec.late = 0 /\ rec.gps = <<>> /\ CheckAbsences)
            /\ CheckAbsences => rec.status = "absent"
            /\ \A u \in Senders, c \in CodeCourses, sid \in SessionIds :
                  ( \/ OnDirectCheckin(u, c, sid)
                    \/ OnGPSCheckin(u, c, sid)
                    \/ OnCheckinRequest(u, c, sid) )
                  => /\ rec.gps = <<>>
                     /\ rec.status = "late" => rec.late > LateStandard(getCourse(c)[1])
            /\ \A u \in Senders, lat \in Locations :
                  OnLocation(u, lat)
                  => LET state == userStates[u]
                         fence == Geofence(getCourse(state.courseId)[1], state)
                     IN /\ rec.gps = <<lat, Classroom.lon>>
                        /\ calculateDistance(lat, Classroom.lon, fence.lat, fence.lon)
                              <= fence.radius
                        /\ rec.status = "late" => rec.late > state.lateMinutes
            /\ rec.gps # <<>> => \E u \in Senders, lat \in Locations : OnLocation(u, lat)
       ]_vars

\* C39 case: a late record with the location of the classroom, written after a
\* location message, and an absence without one, written by the sweep
C39_Witness ==
    /\ \E k \in 1..Len(records) :
          /\ records[k].status = "late"
          /\ records[k].gps = <<Classroom.lat, Classroom.lon>>
          /\ records[k].late > LateStandard(courses[1])
    /\ \E k \in 1..Len(records) :
          records[k].status = "absent" /\ records[k].gps = <<>> /\ records[k].late = 0

====
